---- MODULE Spec2Model ----
(***************************************************************************)
(* A model of package resp (github.com/goloop/resp): the Response builder  *)
(* of response.go, the package-level helpers of resp.go, the options of    *)
(* option.go and the error envelope of error.go, together with the part of *)
(* http.ResponseWriter the package drives (header collection, WriteHeader, *)
(* Write).                                                                 *)
(*                                                                         *)
(* A Go string is a sequence of tokens (Str); a token is an opaque piece   *)
(* of text.  Concatenation is \o, the empty string is << >>.  A header is  *)
(* a function from canonical header names to the sequence of its lines; a  *)
(* name without lines is a name absent from the http.Header map.           *)
(***************************************************************************)
EXTENDS Integers, Sequences, FiniteSets, TLC

VARIABLES
    r,      \* the Response: statusCode, jsonEncodeFunc
    w,      \* the http.ResponseWriter behind r.httpWriter
    last,   \* the call made last: its name, arguments, result and pre-state
    nops,   \* number of calls made so far
    flows,  \* two flows on one Response: where each is, and its locals
    proj,   \* a value, a field list, and what OnlyFields and ExcludeFields
            \* returned for them
    run     \* the emitter that runs statement by statement: where it is,
            \* its arguments and its result

vars == <<r, w, last, nops, flows, proj, run>>

-----------------------------------------------------------------------------
(* Bounds of the model. *)

\* calls per behaviour of the header specification
MaxHeaderOps == 3
\* calls per behaviour of the emitter specification
MaxOps == 3
\* size of the pool the value lists of SetHeader/AddHeader are cut from
MaxVals == 2
\* names in the field list handed to OnlyFields and ExcludeFields
MaxFieldArgs == 2
\* calls per behaviour of the specification of the assembled headers
MaxAssemblies == 2
\* chunks a source handed to Stream yields before it ends
MaxChunks == 2
\* calls per behaviour of the cookie specification
MaxCookieOps == 4
\* calls per behaviour of the file specification
MaxFileOps == 2
\* cookies queued when the two flows of the concurrent specification start
MaxQueue == 2
\* NewResponse calls per behaviour of the option specification, and options
\* per call
MaxBuilds == 1
MaxOptions == 3

-----------------------------------------------------------------------------
(* Program constants. *)

StatusUndefined == 0
StatusOK == 200
StatusNoContent == 204
StatusMultipleChoices == 300
StatusFound == 302
StatusPermanentRedirect == 308
StatusBadRequest == 400
StatusNotModified == 304
StatusNotFound == 404
StatusInternalServerError == 500

HeaderContentType == "Content-Type"
HeaderCacheControl == "Cache-Control"
HeaderLocation == "Location"
HeaderContentDisposition == "Content-Disposition"
HeaderSetCookie == "Set-Cookie"
HeaderLastModified == "Last-Modified"
HeaderContentLength == "Content-Length"
HeaderAcceptRanges == "Accept-Ranges"
HeaderXContentTypeOptions == "X-Content-Type-Options"
HeaderWarning == "Warning"
HeaderLink == "Link"
HeaderRetryAfter == "Retry-After"

MIMETextPlain == <<"text/plain">>
MIMETextPlainCharsetUTF8 == <<"text/plain; charset=utf-8">>
MIMEOctetStream == <<"application/octet-stream">>
MIMETextHTMLCharsetUTF8 == <<"text/html; charset=utf-8">>
MIMEApplicationJSONCharsetUTF8 == <<"application/json; charset=utf-8">>
MIMEApplicationJavaScriptCharsetUTF8 == <<"application/javascript; charset=utf-8">>

\* The entries of the singleHeaders table among the headers of the model.
singleHeaders ==
    {HeaderContentType, HeaderLastModified, HeaderContentLength,
     HeaderLocation, HeaderRetryAfter, HeaderContentDisposition,
     HeaderXContentTypeOptions}

\* g.In(key, singleHeaders...): exact, case-sensitive membership.
In(key, list) == key \in list

-----------------------------------------------------------------------------
(* http.Header, the header collection of the ResponseWriter. *)

\* The canonical names the model's headers are stored under.
CanonKeys ==
    {HeaderContentType, HeaderCacheControl, HeaderLocation,
     HeaderContentDisposition, HeaderSetCookie, HeaderLastModified,
     HeaderContentLength, HeaderAcceptRanges, HeaderXContentTypeOptions,
     HeaderWarning, HeaderLink, HeaderRetryAfter}

\* textproto.CanonicalMIMEHeaderKey, which Set, Add and Del apply to the key.
CanonicalMIMEHeaderKey(key) ==
    CASE key = "content-type" -> HeaderContentType
      [] key = "cache-control" -> HeaderCacheControl
      [] OTHER -> key

\* An http.Header without entries.
EmptyHeader == [k \in CanonKeys |-> << >>]

\* h.Set(key, value): the key's lines are replaced by the single line value.
HeaderSet(h, key, value) ==
    [h EXCEPT ![CanonicalMIMEHeaderKey(key)] = <<value>>]

\* h.Add(key, value): value becomes one more line of the key.
HeaderAdd(h, key, value) ==
    [h EXCEPT ![CanonicalMIMEHeaderKey(key)] = Append(@, value)]

\* h.Del(key): the key leaves the map.
HeaderDel(h, key) ==
    [h EXCEPT ![CanonicalMIMEHeaderKey(key)] = << >>]

\* _, ok := h[key]: a map index, which does not canonicalise the key.
HeaderHas(h, key) == key \in CanonKeys /\ h[key] # << >>

\* strings.Join(value, ","), the separator being the token ",".
RECURSIVE stringsJoin(_)
stringsJoin(value) ==
    IF value = << >> THEN << >>
    ELSE IF Len(value) = 1 THEN value[1]
    ELSE value[1] \o <<",">> \o stringsJoin(Tail(value))

-----------------------------------------------------------------------------
(* The Response and its writer as one value s = [r, w, err]; every method  *)
(* maps such a value to the value after the call.                          *)

\* NewResponse's struct literal.
FreshResponse == [statusCode |-> StatusUndefined, jsonEncodeFunc |-> "nil"]

\* An httptest.NewRecorder(): nothing set, nothing committed, nothing written.
\* Its log is the record of the call in progress: one entry for each run of
\* prepare and for each WriteHeader and Write the Response hands the writer,
\* in the order they happen; handed is the status of the latest WriteHeader
\* it was handed, 0 when there was none.
FreshWriter ==
    [header |-> EmptyHeader, wroteHeader |-> FALSE, code |-> 0,
     snapHeader |-> EmptyHeader, body |-> << >>, log |-> << >>,
     handed |-> 0]

\* The Response and its writer as a call finds them: its log is empty.
St(rr, ww) == [r |-> rr, w |-> [ww EXCEPT !.log = << >>], err |-> "nil"]

\* Response.SetStatus
SetStatus(s, code) == [s EXCEPT !.r.statusCode = code]

\* SetHeader as it would be if the multi-valued branch added a line instead of
\* replacing the lines.
SetHeader_Adds(s, key, value) ==
    IF In(key, singleHeaders) /\ Len(value) > 0
    THEN [s EXCEPT !.w.header = HeaderSet(@, key, value[1])]
    ELSE [s EXCEPT !.w.header = HeaderAdd(@, key, stringsJoin(value))]

\* Response.SetHeader
SetHeader(s, key, value) ==
    IF In(key, singleHeaders) /\ Len(value) > 0
    THEN [s EXCEPT !.w.header = HeaderSet(@, key, value[1])]
    ELSE [s EXCEPT !.w.header = HeaderSet(@, key, stringsJoin(value))]

\* The loop as it would be if the values were added as one joined line.
AddEach_Joined(h, key, value) ==
    IF value = << >> THEN h ELSE HeaderAdd(h, key, stringsJoin(value))

\* The loop of Response.AddHeader: one Header().Add per value, in order.
RECURSIVE AddEach(_, _, _)
AddEach(h, key, value) ==
    IF value = << >> THEN h
    ELSE AddEach(HeaderAdd(h, key, Head(value)), key, Tail(value))

\* The single-valued branch as it would be if it added the first value.
AddHeaderSingle_Appends(s, key, value) ==
    [s EXCEPT !.w.header = HeaderAdd(@, key, value[1])]

\* Response.AddHeader on a header of the single-valued table.
AddHeaderSingle(s, key, value) == SetHeader(s, key, <<value[1]>>)

\* Response.AddHeader
AddHeader(s, key, value) ==
    IF In(key, singleHeaders) /\ Len(value) > 0
    THEN AddHeaderSingle(s, key, value)
    ELSE [s EXCEPT !.w.header = AddEach(@, key, value)]

\* Response.DelHeader
DelHeader(s, key) == [s EXCEPT !.w.header = HeaderDel(@, key)]

\* ClearHeaders as it would be if the queue of cookies were kept apart from
\* the headers.
ClearHeaders_KeepsCookies(s) ==
    [s EXCEPT !.w.header =
         [EmptyHeader EXCEPT ![HeaderSetCookie] = s.w.header[HeaderSetCookie]]]

\* Response.ClearHeaders
ClearHeaders(s) == [s EXCEPT !.w.header = EmptyHeader]

-----------------------------------------------------------------------------
(* Cookies.  An http.Cookie is a record of its Name, Value, Path, Expires   *)
(* and MaxAge; the queue of cookies is the lines of the Set-Cookie header.  *)

\* isCookieNameValid of net/http: a name is a non-empty token.
isCookieNameValid(name) == name # << >>

\* (*http.Cookie).String(): Name=Value followed by the attributes that are
\* set, and "" for a cookie whose name is not valid.
cookieString(c) ==
    IF ~isCookieNameValid(c.Name) THEN << >>
    ELSE c.Name \o <<"=">> \o c.Value
         \o (IF c.Path # << >> THEN <<"; Path=">> \o c.Path ELSE << >>)
         \o (IF c.Expires # << >> THEN <<"; Expires=">> \o c.Expires
             ELSE << >>)
         \o (IF c.MaxAge > 0 THEN <<"; Max-Age=", ToString(c.MaxAge)>>
             ELSE IF c.MaxAge < 0 THEN <<"; Max-Age=0">>
             ELSE << >>)

\* http.SetCookie(w, cookie): the cookie's line is added unless it is "".
httpSetCookie(h, cookie) ==
    IF cookieString(cookie) # << >>
    THEN HeaderAdd(h, HeaderSetCookie, cookieString(cookie))
    ELSE h

\* Response.SetCookie
SetCookie(s, cookie) == [s EXCEPT !.w.header = httpSetCookie(@, cookie)]

\* strings.HasPrefix(c, prefix)
HasPrefix(c, prefix) ==
    Len(c) >= Len(prefix) /\ SubSeq(c, 1, Len(prefix)) = prefix

\* The test as it would be if it compared the name without the "=".
IsCookieNamed_NamePrefix(c, name) == HasPrefix(c, name)

\* The test DelCookie makes on a line c: strings.HasPrefix(c, name+"=").
IsCookieNamed(c, name) == HasPrefix(c, name \o <<"=">>)

\* The first loop of DelCookie: the lines that do not pass the test, in order.
RECURSIVE filteredCookies(_, _)
filteredCookies(lines, name) ==
    IF lines = << >> THEN << >>
    ELSE IF ~IsCookieNamed(Head(lines), name)
    THEN <<Head(lines)>> \o filteredCookies(Tail(lines), name)
    ELSE filteredCookies(Tail(lines), name)

\* Response.DelCookie
DelCookie(s, name) ==
    LET kept == filteredCookies(s.w.header[HeaderSetCookie], name)
    IN [s EXCEPT !.w.header =
            AddEach(HeaderDel(@, HeaderSetCookie), HeaderSetCookie, kept)]

\* BindCookie as it would be without the deletion.
BindCookie_Appends(s, cookie) == SetCookie(s, cookie)

\* Response.BindCookie
BindCookie(s, cookie) == SetCookie(DelCookie(s, cookie.Name), cookie)

\* Response.ClearCookies
ClearCookies(s) == [s EXCEPT !.w.header = HeaderDel(@, HeaderSetCookie)]

\* Response.ExpiredCookie
ExpiredCookie(s, name) ==
    SetCookie(s, [Name |-> name, Value |-> <<"deleted">>, Path |-> <<"/">>,
                  Expires |-> <<"Thu, 01 Jan 1970 00:00:00 GMT">>,
                  MaxAge |-> -1])

-----------------------------------------------------------------------------
(* http.ResponseWriter: the commit of status and headers, and the body. *)

\* WriteHeader as it would be if every call replaced the status and the
\* headers committed.
WriteHeader_LastWins(ww, code) ==
    [ww EXCEPT !.log = Append(@, "WriteHeader"), !.handed = code,
               !.wroteHeader = TRUE, !.code = code, !.snapHeader = ww.header]

\* w.WriteHeader(code): the first call commits the status and the headers as
\* they are at that moment; a later call changes nothing.
WriteHeader(ww, code) ==
    LET w1 == [ww EXCEPT !.log = Append(@, "WriteHeader"), !.handed = code]
    IN IF ww.wroteHeader THEN w1
       ELSE [w1 EXCEPT !.wroteHeader = TRUE, !.code = code,
                       !.snapHeader = ww.header]

\* w.Write(p): commits status 200 first when nothing is committed yet, then
\* appends p to the body; a failed write (ok = FALSE) appends nothing.
Write(ww, p, ok) ==
    LET w0 == [ww EXCEPT !.log = Append(@, "Write")]
        w1 == IF ww.wroteHeader THEN w0
              ELSE [w0 EXCEPT !.wroteHeader = TRUE, !.code = StatusOK,
                              !.snapHeader = ww.header]
    IN IF ok THEN [w1 EXCEPT !.body = @ \o p] ELSE w1

-----------------------------------------------------------------------------
(* JSON encoding. *)

\* strconv.Itoa on the error codes of the model.
Itoa(n) ==
    CASE n = 7 -> "7"
      [] n = StatusNotFound -> "404"
      [] n = StatusInternalServerError -> "500"
      [] OTHER -> "0"

\* The statusMessages table; a code without an entry reads as "".
statusMessages(status) ==
    CASE status = StatusNotFound -> <<"Not Found">>
      [] status = StatusInternalServerError -> <<"Internal Server Error">>
      [] OTHER -> << >>

\* newErrorResponse(status, message...)
newErrorResponse(status, message) ==
    LET msg == IF Len(message) > 0 THEN message[1] ELSE statusMessages(status)
    IN [kind |-> "error", code |-> status, message |-> msg]

\* json.Marshal: a map {"hello": "world"}, or an ErrorResponse with its
\* `json:"code"` and `json:"message"` tags.
Marshal(data) ==
    IF data.kind = "error"
    THEN <<"{\"code\":", Itoa(data.code), ",\"message\":\"">> \o data.message
             \o <<"\"}">>
    ELSE <<"{\"hello\":\"world\"}">>

\* A channel is a value no JSON encoder accepts.
Encodable(data) == data.kind # "chan"

\* What an encoder hands to its io.Writer and what it returns.  "nil" is the
\* default json.NewEncoder(w).Encode: all or nothing, a newline appended.
\* "compact" is a custom encoder that writes the marshalled bytes alone;
\* "stream" is a custom encoder that writes as it goes, so that it has written
\* the opening brace when it meets the value it cannot encode.
Encode(f, data) ==
    IF Encodable(data)
    THEN [out |-> IF f = "compact" THEN Marshal(data)
                  ELSE Marshal(data) \o <<"\n">>,
          err |-> "nil"]
    ELSE [out |-> IF f = "stream" THEN <<"{">> ELSE << >>, err |-> "encode"]

-----------------------------------------------------------------------------
(* The emitters of Response. *)

\* The status as it would be if prepare left an undefined status alone.
DefaultedStatus_Keeps(statusCode, defStatus) == statusCode

\* The status prepare leaves pending: the default when none is set.
DefaultedStatus(statusCode, defStatus) ==
    IF statusCode = StatusUndefined THEN defStatus ELSE statusCode

\* prepare as it would be without the test for a Content-Type already set.
prepare_Overrides(s, defStatus, defContentType) ==
    LET h == IF Len(defContentType) > 0
             THEN HeaderSet(s.w.header, HeaderContentType, defContentType[1])
             ELSE s.w.header
        c == DefaultedStatus(s.r.statusCode, defStatus)
    IN [s EXCEPT !.w.header = h, !.w.log = Append(@, "prepare"),
                 !.r.statusCode = c]

\* Response.prepare(defStatus, defContentType...)
prepare(s, defStatus, defContentType) ==
    LET ok == HeaderHas(s.w.header, HeaderContentType)
        h == IF ~ok /\ Len(defContentType) > 0
             THEN HeaderSet(s.w.header, HeaderContentType, defContentType[1])
             ELSE s.w.header
        c == DefaultedStatus(s.r.statusCode, defStatus)
    IN [s EXCEPT !.w.header = h, !.w.log = Append(@, "prepare"),
                 !.r.statusCode = c]

\* r.httpWriter.WriteHeader(r.statusCode)
Commit(s) == [s EXCEPT !.w = WriteHeader(@, s.r.statusCode)]

\* _, err := r.httpWriter.Write(data); return err
WriteBody(s, data, ok) ==
    [s EXCEPT !.w = Write(@, data, ok),
              !.err = IF ok THEN "nil" ELSE "write"]

\* Response.SetJSONEncoder
SetJSONEncoder(s, f) == [s EXCEPT !.r.jsonEncodeFunc = f]

\* The encoder of Response.JSON writing into r.httpWriter: what it wrote
\* reaches the body, its error or the writer's is returned.
EncodeToWriter(s, data, ok) ==
    LET e == Encode(s.r.jsonEncodeFunc, data)
    IN IF e.out = << >> THEN [s EXCEPT !.err = e.err]
       ELSE [s EXCEPT !.w = Write(@, e.out, ok),
                      !.err = IF ok THEN e.err ELSE "write"]

\* JSON as it would be with the content type without its charset.
JSON_WithoutCharset(s, data, ok) ==
    EncodeToWriter(Commit(prepare(s, StatusOK, <<(<<"application/json">>)>>)),
                   data, ok)

\* Response.JSON
JSON(s, data, ok) ==
    EncodeToWriter(
        Commit(prepare(s, StatusOK, <<MIMEApplicationJSONCharsetUTF8>>)),
        data, ok)

\* The buffer left as the encoder wrote it.
TrimNewline_Keeps(jsonData) == jsonData

\* The trailing newline of the buffer removed, if present.
TrimNewline(jsonData) ==
    IF Len(jsonData) > 0 /\ jsonData[Len(jsonData)] = "\n"
    THEN SubSeq(jsonData, 1, Len(jsonData) - 1)
    ELSE jsonData

\* fmt.Fprintf(r.httpWriter, "%s(%s);", callback, jsonData)
JSONPBody(callback, jsonData) == callback \o <<"(">> \o jsonData \o <<");">>

\* Response.JSONP
JSONP(s, data, callback, ok) ==
    LET s1 == Commit(prepare(s, StatusOK,
                             <<MIMEApplicationJavaScriptCharsetUTF8>>))
        e == Encode(s.r.jsonEncodeFunc, data)
    IN IF e.err # "nil" THEN [s1 EXCEPT !.err = e.err]
       ELSE WriteBody(s1, JSONPBody(callback, TrimNewline(e.out)), ok)

\* Response.String
String(s, data, ok) ==
    WriteBody(Commit(prepare(s, StatusOK, <<MIMETextPlain>>)), data, ok)

\* Response.HTML
HTML(s, html, ok) ==
    WriteBody(Commit(prepare(s, StatusOK, <<MIMETextHTMLCharsetUTF8>>)),
              html, ok)

\* The status as it would be if Error always answered 500.
ErrorStatus_Always500(s) == StatusInternalServerError

\* The status Response.Error leaves pending before it calls JSON.
ErrorStatus(s) ==
    IF s.r.statusCode = StatusUndefined THEN StatusInternalServerError
    ELSE s.r.statusCode

\* Response.Error
Error(s, code, message, ok) ==
    JSON([s EXCEPT !.r.statusCode = ErrorStatus(s)],
         newErrorResponse(code, <<message>>), ok)

\* io.Copy(r.httpWriter, data): chunk after chunk until the reader is drained
\* (then its end, io.EOF or a read error, decides the result) or until the
\* failAt-th write of the call fails.
\* io.Copy as it would be if it went on with the next chunk after a write
\* that failed.
RECURSIVE ioCopy_KeepsGoing(_, _, _, _)
ioCopy_KeepsGoing(s, data, n, failAt) ==
    IF n > Len(data.chunks)
    THEN [s EXCEPT !.err = IF data.readErr THEN "read" ELSE s.err]
    ELSE IF n = failAt
    THEN ioCopy_KeepsGoing(WriteBody(s, data.chunks[n], FALSE), data, n + 1,
                           failAt)
    ELSE ioCopy_KeepsGoing([WriteBody(s, data.chunks[n], TRUE)
                               EXCEPT !.err = s.err],
                           data, n + 1, failAt)

RECURSIVE ioCopy(_, _, _, _)
ioCopy(s, data, n, failAt) ==
    IF n > Len(data.chunks)
    THEN [s EXCEPT !.err = IF data.readErr THEN "read" ELSE "nil"]
    ELSE IF n = failAt
    THEN WriteBody(s, data.chunks[n], FALSE)
    ELSE ioCopy(WriteBody(s, data.chunks[n], TRUE), data, n + 1, failAt)

\* Response.Stream
Stream(s, data, failAt) ==
    ioCopy(Commit(prepare(s, StatusOK, <<MIMEOctetStream>>)), data, 1, failAt)

\* The Content-Disposition value Response.ServeFileAsDownload builds.
AttachmentValue(fileName) ==
    <<"attachment; filename=\"">> \o fileName \o <<"\"">>

\* Response.ServeFileAsDownload
ServeFileAsDownload(s, fileName, data, ok) ==
    LET s1 == [s EXCEPT !.w.header =
                   HeaderSet(@, HeaderContentDisposition,
                             AttachmentValue(fileName))]
    IN WriteBody(Commit(prepare(s1, StatusOK, <<MIMEOctetStream>>)), data, ok)

\* http.Error(w, error, code), which http.ServeFile answers a failure with:
\* a plain-text body under the status code.
httpError(ww, error, code) ==
    LET h1 == HeaderDel(ww.header, HeaderContentLength)
        h2 == HeaderSet(h1, HeaderContentType, MIMETextPlainCharsetUTF8)
        h3 == HeaderSet(h2, HeaderXContentTypeOptions, <<"nosniff">>)
    IN Write(WriteHeader([ww EXCEPT !.header = h3], code),
             error \o <<"\n">>, TRUE)

\* The success path of http.ServeFile (serveContent): Last-Modified is set; a
\* conditional request that finds the file unchanged is answered 304 without
\* Content-Type, Content-Length and body; otherwise the Content-Type is
\* detected only when the header map has none, and status 200 and the content
\* are sent.
serveContent(ww, req, file) ==
    LET h1 == HeaderSet(ww.header, HeaderLastModified, file.modtime)
        h2 == HeaderDel(HeaderDel(h1, HeaderContentType), HeaderContentLength)
        h3 == IF HeaderHas(h1, HeaderContentType) THEN h1
              ELSE HeaderSet(h1, HeaderContentType, file.ctype)
        h4 == HeaderSet(HeaderSet(h3, HeaderAcceptRanges, <<"bytes">>),
                        HeaderContentLength, file.size)
    IN IF req.notModified
       THEN WriteHeader([ww EXCEPT !.header = h2], StatusNotModified)
       ELSE Write(WriteHeader([ww EXCEPT !.header = h4], StatusOK),
                  file.content, TRUE)

\* http.ServeFile(w, req, file): a request path holding ".." is rejected with
\* 400, a file that cannot be opened is answered 404, any other is served.
httpServeFile(ww, req, file) ==
    IF req.dotdot THEN httpError(ww, <<"invalid URL path">>, StatusBadRequest)
    ELSE IF ~file.exists
    THEN httpError(ww, <<"404 page not found">>, StatusNotFound)
    ELSE serveContent(ww, req, file)

\* ServeFile as it would be if it committed the pending status itself.
ServeFile_CommitsFirst(s, req, file) ==
    LET s1 == Commit(prepare(s, StatusOK, <<MIMEOctetStream>>))
    IN [s1 EXCEPT !.w = httpServeFile(@, req, file), !.err = "nil"]

\* Response.ServeFile
ServeFile(s, req, file) ==
    LET s1 == prepare(s, StatusOK, <<MIMEOctetStream>>)
    IN [s1 EXCEPT !.w = httpServeFile(@, req, file), !.err = "nil"]

\* The clamp as it would be with both ends of the range excluded.
RedirectStatus_Exclusive(c) ==
    IF c <= StatusMultipleChoices \/ c >= StatusPermanentRedirect
    THEN StatusFound
    ELSE c

\* The status Response.Redirect commits for the pending status c.
RedirectStatus(c) ==
    IF c < StatusMultipleChoices \/ c > StatusPermanentRedirect
    THEN StatusFound
    ELSE c

\* Redirect as it would be if it set Location after the commit.
Redirect_CommitsFirst(s, url) ==
    LET s1 == prepare(s, StatusFound, << >>)
        s2 == [s1 EXCEPT !.w = WriteHeader(@, RedirectStatus(s1.r.statusCode))]
    IN [s2 EXCEPT !.w.header = HeaderSet(@, "Location", url)]

\* Response.Redirect
Redirect(s, url) ==
    LET s1 == prepare(s, StatusFound, << >>)
        s2 == [s1 EXCEPT !.w.header = HeaderSet(@, "Location", url)]
    IN [s2 EXCEPT !.w = WriteHeader(@, RedirectStatus(s1.r.statusCode))]

\* NoContent as it would be if 204 were only prepare's default.
NoContent_KeepsStatus(s) ==
    LET s1 == prepare(s, StatusNoContent, << >>)
    IN [s1 EXCEPT !.w = WriteHeader(@, s1.r.statusCode)]

\* Response.NoContent
NoContent(s) ==
    LET s1 == prepare(SetStatus(s, StatusNoContent), StatusNoContent, << >>)
    IN [s1 EXCEPT !.w = WriteHeader(@, StatusNoContent)]

-----------------------------------------------------------------------------
(* Options and the package-level functions. *)

\* WithStatus(code)
WithStatus(code) ==
    [opt |-> "WithStatus", code |-> code, key |-> "", value |-> << >>,
     f |-> "nil"]

\* WithHeader(key, values...)
WithHeader(key, value) ==
    [opt |-> "WithHeader", code |-> 0, key |-> key, value |-> value,
     f |-> "nil"]

\* AddContentType(value)
AddContentType(value) == WithHeader(HeaderContentType, <<value>>)

\* AddLocation(value)
AddLocation(value) == WithHeader(HeaderLocation, <<value>>)

\* url.PathEscape(filename): the token "<U+00E9>", the letter e with acute
\* accent (bytes C3 A9 in UTF-8), becomes its percent
\* encoding, a space "%20"; the other tokens of the model need no escape.
RECURSIVE PathEscape(_)
PathEscape(filename) ==
    IF filename = << >> THEN << >>
    ELSE (CASE Head(filename) = "<U+00E9>" -> <<"%C3%A9">>
            [] Head(filename) = " " -> <<"%20">>
            [] OTHER -> <<Head(filename)>>)
         \o PathEscape(Tail(filename))

\* AddContentDisposition(dispositionType, filename, useUTF8Encoding...)
AddContentDisposition(dispositionType, filename, useUTF8Encoding) ==
    IF Len(useUTF8Encoding) > 0 /\ useUTF8Encoding[1]
    THEN WithHeader(HeaderContentDisposition,
                    <<dispositionType \o <<"; filename*=UTF-8''">>
                          \o PathEscape(filename)>>)
    ELSE WithHeader(HeaderContentDisposition,
                    <<dispositionType \o <<"; filename=\"">> \o filename
                          \o <<"\"">>>>)

\* ApplyJSONEncoder(encodeFunc)
ApplyJSONEncoder(f) ==
    [opt |-> "ApplyJSONEncoder", code |-> 0, key |-> "", value |-> << >>,
     f |-> f]

\* A time.Time is a record of its wall clock in its own location, the
\* abbreviation of that location's zone, and its wall clock in UTC; the zero
\* time is 1 January of year 1, UTC.
ZeroTime ==
    [local |-> <<"Mon, 01 Jan 0001 00:00:00">>, zone |-> "UTC",
     utc |-> <<"Mon, 01 Jan 0001 00:00:00">>]

\* t.IsZero()
IsZero(t) == t = ZeroTime

\* t.Format(time.RFC1123), the layout "Mon, 02 Jan 2006 15:04:05 MST": the
\* wall clock of t in its location, then the abbreviation of its zone.
FormatRFC1123(t) == t.local \o <<" ", t.zone>>

\* strconv.Itoa(n), and fmt.Sprintf("%d", n)
strconvItoa(n) == ToString(n)

\* time.Second, in nanoseconds.
Second == 1000000000

\* int(v.Seconds()): the conversion of the float to int drops the fraction.
WholeSeconds(v) == IF v >= 0 THEN v \div Second ELSE -((-v) \div Second)

\* The Warning value as it would be with the date ahead of the text.
WarningValue_DateFirst(warning) ==
    LET dateStr == IF ~IsZero(warning.Date) THEN FormatRFC1123(warning.Date)
                   ELSE << >>
        v1 == <<strconvItoa(warning.Code)>>
        v2 == IF warning.Agent # << >> THEN v1 \o <<" ">> \o warning.Agent
              ELSE v1
        v3 == IF dateStr # << >> THEN v2 \o <<" ", "\"">> \o dateStr \o <<"\"">>
              ELSE v2
    IN IF warning.Text # << >>
       THEN v3 \o <<" ", "\"">> \o warning.Text \o <<"\"">>
       ELSE v3

\* The value AddWarning builds for one WarningHeader.
WarningValue(warning) ==
    LET dateStr == IF ~IsZero(warning.Date) THEN FormatRFC1123(warning.Date)
                   ELSE << >>
        v1 == <<strconvItoa(warning.Code)>>
        v2 == IF warning.Agent # << >> THEN v1 \o <<" ">> \o warning.Agent
              ELSE v1
        v3 == IF warning.Text # << >>
              THEN v2 \o <<" ", "\"">> \o warning.Text \o <<"\"">>
              ELSE v2
    IN IF dateStr # << >> THEN v3 \o <<" ", "\"">> \o dateStr \o <<"\"">>
       ELSE v3

\* The value AddLink builds for one LinkHeader.
LinkValue(link) ==
    LET v1 == <<"<">> \o link.URI \o <<">", "; ", "rel=\"">> \o link.Rel
                  \o <<"\"">>
        v2 == IF link.Type # << >>
              THEN v1 \o <<"; ", "type=\"">> \o link.Type \o <<"\"">>
              ELSE v1
    IN IF link.Title # << >>
       THEN v2 \o <<"; ", "title=\"">> \o link.Title \o <<"\"">>
       ELSE v2

\* The values the loops of AddWarning and AddLink build, in the order of
\* the arguments.
WarningValues(warnings) ==
    [i \in 1..Len(warnings) |-> WarningValue(warnings[i])]
LinkValues(links) == [i \in 1..Len(links) |-> LinkValue(links[i])]

\* AddWarning(warnings...)
AddWarning(warnings) ==
    [opt |-> "AddWarning", code |-> 0, key |-> HeaderWarning,
     value |-> warnings, f |-> "nil"]

\* AddLink(links...)
AddLink(links) ==
    [opt |-> "AddLink", code |-> 0, key |-> HeaderLink, value |-> links,
     f |-> "nil"]

\* The stringValue of AddRetryAfter: its switch over the type of the value.
RetryAfterValue(value) ==
    CASE value.type = "int" -> <<strconvItoa(value.n)>>
      [] value.type = "time.Time" -> FormatRFC1123(value.t)
      [] value.type = "time.Duration" -> <<strconvItoa(WholeSeconds(value.n))>>

\* AddRetryAfter(value)
AddRetryAfter(value) ==
    [opt |-> "AddRetryAfter", code |-> 0, key |-> HeaderRetryAfter,
     value |-> value, f |-> "nil"]

\* opt(response): what the closure of each option does.
ApplyOption(s, o) ==
    CASE o.opt = "WithStatus" -> SetStatus(s, o.code)
      [] o.opt = "WithHeader" -> AddHeader(s, o.key, o.value)
      [] o.opt = "ApplyJSONEncoder" -> SetJSONEncoder(s, o.f)
      [] o.opt = "AddWarning" ->
             [s EXCEPT !.w.header =
                  AddEach(@, HeaderWarning, WarningValues(o.value))]
      [] o.opt = "AddLink" ->
             [s EXCEPT !.w.header =
                  AddEach(@, HeaderLink, LinkValues(o.value))]
      [] o.opt = "AddRetryAfter" ->
             AddHeader(s, HeaderRetryAfter, <<RetryAfterValue(o.value)>>)

\* The loop as it would be if it ran over the options from the last to the
\* first.
RECURSIVE ApplyOptions_Reversed(_, _)
ApplyOptions_Reversed(s, opts) ==
    IF opts = << >> THEN s
    ELSE ApplyOptions_Reversed(ApplyOption(s, opts[Len(opts)]),
                               SubSeq(opts, 1, Len(opts) - 1))

\* The loop of NewResponse: the options applied in the order given.
RECURSIVE ApplyOptions(_, _)
ApplyOptions(s, opts) ==
    IF opts = << >> THEN s
    ELSE ApplyOptions(ApplyOption(s, Head(opts)), Tail(opts))

\* NewResponse(w, opts...)
NewResponse(ww, opts) == ApplyOptions(St(FreshResponse, ww), opts)

\* resp.Redirect(w, url, opts...)
RespRedirect(ww, url, opts) ==
    Redirect(NewResponse(ww, <<WithStatus(StatusFound)>> \o opts), url)

\* resp.NoContent(w, opts...)
RespNoContent(ww, opts) ==
    NoContent(NewResponse(ww, <<WithStatus(StatusNoContent)>> \o opts))

\* resp.ServeFile(w, r, filename, opts...)
RespServeFile(ww, req, file, opts) ==
    ServeFile(NewResponse(ww, opts), req, file)

\* resp.ServeFileAsDownload(w, filename, data, opts...)
RespServeFileAsDownload(ww, fileName, data, opts, ok) ==
    ServeFileAsDownload(NewResponse(ww, opts), fileName, data, ok)

-----------------------------------------------------------------------------
(* OnlyFields and ExcludeFields.  A value handed to them is a record of its  *)
(* reflect.Kind, its dynamic type, the names of its fields or keys in        *)
(* order, those of them that are unexported, the kind its pointer or its     *)
(* elements lead to, the kind of its keys, and its length.                   *)

\* The value stored under a field or key.
FieldValue(name) == <<"value of", name>>

\* A panic of the Go runtime, and the R map holding the names of S.
Panic == [kind |-> "panic"]
RMap(S) == [kind |-> "R", m |-> [name \in S |-> FieldValue(name)]]

\* The names of a sequence.
Range(seq) == {seq[i] : i \in DOMAIN seq}

\* onlyFields: the allowed fields of the struct, read one by one with
\* rv.Field(i).Interface(), which panics on a field that is not exported.
onlyFields(data, fields) ==
    IF \E name \in Range(data.names) \cap Range(fields) :
           name \in data.unexported
    THEN Panic
    ELSE RMap(Range(data.names) \cap Range(fields))

\* excludeFields: the fields of the struct that are not excluded, read
\* likewise.
excludeFields(data, fields) ==
    IF \E name \in Range(data.names) \ Range(fields) :
           name \in data.unexported
    THEN Panic
    ELSE RMap(Range(data.names) \ Range(fields))

\* data.(map[string]any): the assertion panics unless the dynamic type of
\* data is map[string]any itself.
AssertsAsMap(data) == data.type = "map[string]any"

\* onlyFieldsMap and excludeFieldsMap on the asserted map.
onlyFieldsMap(data, fields) == RMap(Range(data.names) \cap Range(fields))
excludeFieldsMap(data, fields) == RMap(Range(data.names) \ Range(fields))

\* OnlyFields(data, fields...): the switch over rv.Kind().
OnlyFields(data, fields) ==
    CASE data.kind = "ptr" /\ data.elem = "struct" -> onlyFields(data, fields)
      [] data.kind \in {"slice", "array"} /\ data.len > 0
             /\ data.elem = "struct" ->
             IF onlyFields(data, fields) = Panic THEN Panic
             ELSE [kind |-> "[]R",
                   items |-> [i \in 1..data.len |-> onlyFields(data, fields)]]
      [] data.kind = "struct" -> onlyFields(data, fields)
      [] data.kind = "map" /\ data.key = "string" ->
             IF AssertsAsMap(data) THEN onlyFieldsMap(data, fields) ELSE Panic
      [] OTHER -> data

\* ExcludeFields(data, fields...): the switch over rv.Kind().
ExcludeFields(data, fields) ==
    CASE data.kind = "ptr" /\ data.elem = "struct" ->
             excludeFields(data, fields)
      [] data.kind \in {"slice", "array"} /\ data.len > 0
             /\ data.elem = "struct" ->
             IF excludeFields(data, fields) = Panic THEN Panic
             ELSE [kind |-> "[]R",
                   items |-> [i \in 1..data.len |->
                                  excludeFields(data, fields)]]
      [] data.kind = "struct" -> excludeFields(data, fields)
      [] data.kind = "map" /\ data.key = "string" ->
             IF AssertsAsMap(data) THEN excludeFieldsMap(data, fields)
             ELSE Panic
      [] OTHER -> data

-----------------------------------------------------------------------------
(* Inputs. *)

\* The i-th header value a caller passes.
Val(i) == <<"v", ToString(i)>>

\* The value lists a caller passes: the contiguous cuts of Val(1)..Val(MaxVals),
\* the empty list included.
ValueLists ==
    {<< >>} \cup
    {[k \in 1..(j - i + 1) |-> Val(i + k - 1)] : i \in 1..MaxVals, j \in 1..MaxVals}

\* The spellings of header names a caller passes.
Keys == {HeaderContentType, "content-type", HeaderCacheControl, "cache-control"}

\* The status codes a caller passes: none (0), the codes around both ends of
\* the redirection range, and one far outside it.
StatusSet ==
    {StatusUndefined, 299, StatusMultipleChoices, StatusPermanentRedirect, 309,
     StatusNotFound}

\* The JSON encoders of a Response.
Encoders == {"nil", "compact", "stream"}

\* The data handed to JSON and JSONP: a map, and a channel.
DataSet ==
    {[kind |-> "map", code |-> 0, message |-> << >>],
     [kind |-> "chan", code |-> 0, message |-> << >>]}

\* The codes and messages handed to Error: code 7 has no entry in
\* statusMessages.
ErrorCodes == {7, StatusNotFound}
Messages == {<< >>, <<"not found">>}

\* The text handed to String, HTML and ServeFileAsDownload, and the readers
\* handed to Stream.
Text == <<"Hello">>
Readers ==
    {[chunks |-> <<<<"c1">>, <<"c2">>>>, readErr |-> e] : e \in BOOLEAN}

\* Option lists: none, a status, a content type, a location, an encoder.
OptionLists ==
    {<< >>, <<AddContentType(Val(1))>>, <<AddLocation(Val(1))>>,
     <<ApplyJSONEncoder("stream")>>}
    \cup {<<WithStatus(c)>> : c \in StatusSet}

\* The callback handed to JSONP, the file name handed to ServeFileAsDownload
\* and the url handed to Redirect.
Callbacks == {<<"cb">>}
FileName == <<"x.txt">>
URLs == {Val(2)}

\* The options applied to an existing Response.
HeaderOptions == {AddContentType(Val(1)), AddLocation(Val(1))}

\* The cookie names a caller passes: "session", "session_id", of which the
\* first is a prefix, and "id".
CookieNames == {<<"session">>, <<"session", "_id">>, <<"id">>}

\* The cookies a caller passes: each name with two values, without attributes,
\* and one cookie with a path and a lifetime.
Cookies ==
    {[Name |-> n, Value |-> v, Path |-> << >>, Expires |-> << >>, MaxAge |-> 0] :
        n \in CookieNames, v \in {Val(1), Val(2)}}
    \cup {[Name |-> <<"session">>, Value |-> Val(1), Path |-> <<"/">>,
           Expires |-> << >>, MaxAge |-> 60]}

\* The file names handed to ServeFileAsDownload and AddContentDisposition: one
\* in ASCII, one that starts with a letter outside ASCII.
FileNames == {FileName, <<"<U+00E9>", ".txt">>}

\* The requests handed to ServeFile: a plain GET, a GET whose URL path holds
\* "..", and a GET If-Modified-Since that finds the file unchanged.
Requests ==
    {[name |-> <<"GET">>, dotdot |-> FALSE, notModified |-> FALSE],
     [name |-> <<"GET", "..">>, dotdot |-> TRUE, notModified |-> FALSE],
     [name |-> <<"GET", "If-Modified-Since">>, dotdot |-> FALSE,
      notModified |-> TRUE]}

\* The files handed to ServeFile: one that exists and one that does not.
Files ==
    {[name |-> "testfile.txt", exists |-> TRUE,
      content |-> <<"Hello, world!">>, size |-> <<"13">>,
      modtime |-> <<"Mon, 02 Jan 2006 15:04:05 GMT">>,
      ctype |-> MIMETextPlainCharsetUTF8],
     [name |-> "missing.txt", exists |-> FALSE, content |-> << >>,
      size |-> << >>, modtime |-> << >>, ctype |-> << >>]}

\* The option lists of the file functions: none, a status, a content type,
\* and a Content-Disposition with and without the UTF-8 form.
FileOptionLists ==
    {<< >>, <<WithStatus(StatusNotFound)>>, <<AddContentType(Val(1))>>,
     <<AddContentDisposition(<<"attachment">>, FileName, << >>)>>,
     <<AddContentDisposition(<<"attachment">>, <<"<U+00E9>", ".txt">>,
                             <<TRUE>>)>>}

\* The options NewResponse is given lists of: two statuses, two values for
\* the single-valued Content-Type, one for Content-Type spelled in lower
\* case, one for the multi-valued Cache-Control.
OptionPool ==
    {WithStatus(StatusNotFound), WithStatus(StatusPermanentRedirect),
     AddContentType(Val(1)), AddContentType(Val(2)),
     WithHeader("content-type", <<Val(2)>>),
     WithHeader(HeaderCacheControl, <<Val(1)>>)}

\* The lists of at most MaxOptions options.
OptionSeqs == UNION {[1..n -> OptionPool] : n \in 0..MaxOptions}

\* The queues of at most MaxQueue cookies, as SetCookie calls leave them.
CookieQueues ==
    UNION {[1..n -> {cookieString(c) : c \in Cookies}] : n \in 0..MaxQueue}

\* The values handed to OnlyFields and ExcludeFields: a struct User with the
\* fields ID and Email, a struct Account with ID and the unexported field
\* password, pointers to a User and to an int, a nil *User, maps of the types
\* map[string]any, R, map[string]string and map[int]any, slices of User and
\* of int, and an int.
Value(kind, type, names, unexported, elem, key, len) ==
    [kind |-> kind, type |-> type, names |-> names, unexported |-> unexported,
     elem |-> elem, key |-> key, len |-> len]

ProjectedValues ==
    {Value("struct", "User", <<"ID", "Email">>, {}, "none", "none", 0),
     Value("struct", "Account", <<"ID", "password">>, {"password"}, "none",
           "none", 0),
     Value("ptr", "*User", <<"ID", "Email">>, {}, "struct", "none", 0),
     Value("ptr", "*int", << >>, {}, "int", "none", 0),
     Value("ptr", "*User", << >>, {}, "invalid", "none", 0),
     Value("map", "map[string]any", <<"ID", "Email">>, {}, "interface",
           "string", 2),
     Value("map", "resp.R", <<"ID", "Email">>, {}, "interface", "string", 2),
     Value("map", "map[string]string", <<"ID", "Email">>, {}, "string",
           "string", 2),
     Value("map", "map[int]any", <<"ID", "Email">>, {}, "interface", "int", 2),
     Value("slice", "[]User", <<"ID", "Email">>, {}, "struct", "none", 2),
     Value("slice", "[]int", << >>, {}, "int", "none", 2),
     Value("int", "int", << >>, {}, "none", "none", 0)}

\* The field lists: at most MaxFieldArgs names, among them one no value has.
FieldArgs == {"ID", "password", "Nope"}
FieldLists == UNION {[1..n -> FieldArgs] : n \in 0..MaxFieldArgs}

\* The times a caller passes: midnight of 25 March 2022 in UTC, the same
\* instant in a location whose zone is CET, and in one whose zone is GMT.
UTCTime ==
    [local |-> <<"Fri, 25 Mar 2022 00:00:00">>, zone |-> "UTC",
     utc |-> <<"Fri, 25 Mar 2022 00:00:00">>]
CETTime ==
    [local |-> <<"Fri, 25 Mar 2022 01:00:00">>, zone |-> "CET",
     utc |-> <<"Fri, 25 Mar 2022 00:00:00">>]
GMTTime ==
    [local |-> <<"Fri, 25 Mar 2022 00:00:00">>, zone |-> "GMT",
     utc |-> <<"Fri, 25 Mar 2022 00:00:00">>]

\* The WarningHeader values a caller passes: each optional field empty or
\* not; and the lists of them: none, one, and two with the full one first
\* or last.
FullWarning ==
    [Code |-> 299, Agent |-> <<"TestAgent">>,
     Text |-> <<"Deprecated Feature">>, Date |-> UTCTime]
Warnings ==
    {[Code |-> 299, Agent |-> a, Text |-> x, Date |-> d] :
        a \in {<< >>, <<"TestAgent">>},
        x \in {<< >>, <<"Deprecated Feature">>},
        d \in {ZeroTime, UTCTime}}
WarningLists ==
    {<< >>} \cup {<<x>> : x \in Warnings}
    \cup {<<FullWarning, x>> : x \in Warnings}
    \cup {<<x, FullWarning>> : x \in Warnings}

\* The LinkHeader values a caller passes, and the lists of them.
FullLink ==
    [URI |-> <<"/page/2">>, Rel |-> <<"next">>, Type |-> <<"text/html">>,
     Title |-> <<"Next">>]
Links ==
    {[URI |-> <<"/page/2">>, Rel |-> rel, Type |-> x, Title |-> y] :
        rel \in {<< >>, <<"next">>}, x \in {<< >>, <<"text/html">>},
        y \in {<< >>, <<"Next">>}}
LinkLists ==
    {<< >>} \cup {<<x>> : x \in Links}
    \cup {<<FullLink, x>> : x \in Links}
    \cup {<<x, FullLink>> : x \in Links}

\* The values handed to AddRetryAfter: integers, durations in nanoseconds
\* (1.5 s, -1.5 s, 1 s less 1 ns, 2 s), and times.
RetryAfterValues ==
    {[type |-> "int", n |-> n, t |-> ZeroTime] : n \in {0, 5, 120}}
    \cup {[type |-> "time.Duration", n |-> n, t |-> ZeroTime] :
              n \in {1500000000, -1500000000, 999999999, 2000000000}}
    \cup {[type |-> "time.Time", n |-> 0, t |-> x] :
              x \in {UTCTime, CETTime, GMTTime}}

\* The option lists a Response that queues cookies is built with.
CookieOptionLists ==
    {<< >>, <<WithStatus(StatusNotFound), AddContentType(Val(1))>>}

-----------------------------------------------------------------------------
(* The record of the last call. *)

NoData == [kind |-> "none", code |-> 0, message |-> << >>]

NoCall ==
    [op |-> "NewResponse", key |-> "", value |-> << >>, code |-> 0,
     data |-> NoData, text |-> << >>, opts |-> << >>, ok |-> TRUE,
     err |-> "nil",
     pre |-> [statusCode |-> StatusUndefined, lines |-> << >>,
              location |-> << >>, wroteHeader |-> FALSE, body |-> << >>,
              header |-> EmptyHeader]]

\* What a call on the header named key sees before it runs.
Pre(key) ==
    [statusCode |-> r.statusCode,
     lines |-> w.header[CanonicalMIMEHeaderKey(key)],
     location |-> w.header[HeaderLocation],
     wroteHeader |-> w.wroteHeader,
     body |-> w.body,
     header |-> w.header]

Cur == St(r, w)

\* No flow has started: flow A, which will call DelCookie, has no name and
\* no filteredCookies yet; flow B, which will call SetCookie, has not run.
NoFlows ==
    [pcA |-> "idle", name |-> << >>, kept |-> << >>, before |-> << >>,
     pcB |-> "idle", line |-> << >>, window |-> "", fatal |-> FALSE]

\* Nothing has been projected.
NotCalled == [kind |-> "not called"]
NoProjection ==
    [data |-> Value("int", "int", << >>, {}, "none", "none", 0),
     fields |-> << >>, only |-> NotCalled, exclude |-> NotCalled]

\* No emitter has started.
NoRun ==
    [pc |-> "idle", op |-> "", data |-> NoData, src |-> << >>,
     readErr |-> FALSE, chunk |-> << >>, err |-> "nil", broken |-> FALSE]

Becomes(s, l) ==
    /\ r' = s.r
    /\ w' = s.w
    /\ last' = [l EXCEPT !.err = s.err]
    /\ nops' = nops + 1
    /\ flows' = flows
    /\ proj' = proj
    /\ run' = run

-----------------------------------------------------------------------------
(* The header specification: calls of the header methods on one Response. *)

Init ==
    /\ r = FreshResponse
    /\ w = FreshWriter
    /\ last = NoCall
    /\ nops = 0
    /\ flows = NoFlows
    /\ proj = NoProjection
    /\ run = NoRun

CallSetHeader ==
    \E key \in Keys, value \in ValueLists :
        /\ nops < MaxHeaderOps
        /\ Becomes(SetHeader(Cur, key, value),
                   [NoCall EXCEPT !.op = "SetHeader", !.key = key,
                                  !.value = value, !.pre = Pre(key)])

CallAddHeader ==
    \E key \in Keys, value \in ValueLists :
        /\ nops < MaxHeaderOps
        /\ Becomes(AddHeader(Cur, key, value),
                   [NoCall EXCEPT !.op = "AddHeader", !.key = key,
                                  !.value = value, !.pre = Pre(key)])

CallDelHeader ==
    \E key \in Keys :
        /\ nops < MaxHeaderOps
        /\ Becomes(DelHeader(Cur, key),
                   [NoCall EXCEPT !.op = "DelHeader", !.key = key,
                                  !.pre = Pre(key)])

CallClearHeaders ==
    /\ nops < MaxHeaderOps
    /\ Becomes(ClearHeaders(Cur),
               [NoCall EXCEPT !.op = "ClearHeaders",
                              !.pre = Pre(HeaderContentType)])

NextHeaders ==
    \/ CallSetHeader
    \/ CallAddHeader
    \/ CallDelHeader
    \/ CallClearHeaders

SpecHeaders == Init /\ [][NextHeaders]_vars

-----------------------------------------------------------------------------
(* The emitter specification: a Response is built, configured and emitted. *)

\* The record of a call named op made in the current state.
Called(op) == [NoCall EXCEPT !.op = op, !.pre = Pre(HeaderContentType)]

CallNewResponse ==
    \E opts \in OptionLists :
        /\ nops < MaxOps
        /\ Becomes(NewResponse(w, opts),
                   [Called("NewResponse") EXCEPT !.opts = opts])

CallSetStatus ==
    \E code \in StatusSet :
        /\ nops < MaxOps
        /\ Becomes(SetStatus(Cur, code),
                   [Called("SetStatus") EXCEPT !.code = code])

CallSetJSONEncoder ==
    \E f \in Encoders :
        /\ nops < MaxOps
        /\ Becomes(SetJSONEncoder(Cur, f),
                   [Called("SetJSONEncoder") EXCEPT !.text = <<f>>])

CallOption ==
    \E o \in HeaderOptions :
        /\ nops < MaxOps
        /\ Becomes(ApplyOption(Cur, o),
                   [Called("Option") EXCEPT !.key = o.key, !.value = o.value])

CallJSON ==
    \E data \in DataSet, ok \in BOOLEAN :
        /\ nops < MaxOps
        /\ Becomes(JSON(Cur, data, ok),
                   [Called("JSON") EXCEPT !.data = data, !.ok = ok])

CallJSONP ==
    \E data \in DataSet, callback \in Callbacks, ok \in BOOLEAN :
        /\ nops < MaxOps
        /\ Becomes(JSONP(Cur, data, callback, ok),
                   [Called("JSONP") EXCEPT !.data = data, !.text = callback,
                                           !.ok = ok])

CallString ==
    \E ok \in BOOLEAN :
        /\ nops < MaxOps
        /\ Becomes(String(Cur, Text, ok),
                   [Called("String") EXCEPT !.text = Text, !.ok = ok])

CallHTML ==
    \E ok \in BOOLEAN :
        /\ nops < MaxOps
        /\ Becomes(HTML(Cur, Text, ok),
                   [Called("HTML") EXCEPT !.text = Text, !.ok = ok])

CallStream ==
    \E data \in Readers : \E failAt \in 0..Len(data.chunks) :
        /\ nops < MaxOps
        /\ Becomes(Stream(Cur, data, failAt),
                   [Called("Stream") EXCEPT
                        !.value = data.chunks, !.code = failAt,
                        !.text = IF data.readErr THEN <<"read error">>
                                 ELSE <<"EOF">>,
                        !.ok = (failAt = 0)])

CallServeFileAsDownload ==
    \E ok \in BOOLEAN :
        /\ nops < MaxOps
        /\ Becomes(ServeFileAsDownload(Cur, FileName, Text, ok),
                   [Called("ServeFileAsDownload") EXCEPT !.text = FileName,
                                                         !.ok = ok])

CallError ==
    \E code \in ErrorCodes, message \in Messages, ok \in BOOLEAN :
        /\ nops < MaxOps
        /\ Becomes(Error(Cur, code, message, ok),
                   [Called("Error") EXCEPT !.code = code, !.text = message,
                                           !.ok = ok])

CallRedirect ==
    \E url \in URLs :
        /\ nops < MaxOps
        /\ Becomes(Redirect(Cur, url), [Called("Redirect") EXCEPT !.text = url])

CallNoContent ==
    /\ nops < MaxOps
    /\ Becomes(NoContent(Cur), Called("NoContent"))

CallRespRedirect ==
    \E url \in URLs, opts \in OptionLists :
        /\ nops < MaxOps
        /\ Becomes(RespRedirect(w, url, opts),
                   [Called("resp.Redirect") EXCEPT !.text = url,
                                                   !.opts = opts])

CallRespNoContent ==
    \E opts \in OptionLists :
        /\ nops < MaxOps
        /\ Becomes(RespNoContent(w, opts),
                   [Called("resp.NoContent") EXCEPT !.opts = opts])

Next ==
    \/ CallNewResponse
    \/ CallSetStatus
    \/ CallSetJSONEncoder
    \/ CallOption
    \/ CallJSON
    \/ CallJSONP
    \/ CallString
    \/ CallHTML
    \/ CallStream
    \/ CallServeFileAsDownload
    \/ CallError
    \/ CallRedirect
    \/ CallNoContent
    \/ CallRespRedirect
    \/ CallRespNoContent

Spec == Init /\ [][Next]_vars

-----------------------------------------------------------------------------
(* The file specification: a Response is built and a file or a download is  *)
(* served through it, or through the package-level functions.               *)

CallFileNewResponse ==
    \E opts \in FileOptionLists :
        /\ nops < MaxFileOps
        /\ Becomes(NewResponse(w, opts),
                   [Called("NewResponse") EXCEPT !.opts = opts])

CallServeFile ==
    \E req \in Requests, file \in Files :
        /\ nops < MaxFileOps
        /\ Becomes(ServeFile(Cur, req, file),
                   [Called("ServeFile") EXCEPT !.key = file.name,
                                               !.text = req.name])

CallRespServeFile ==
    \E req \in Requests, file \in Files, opts \in FileOptionLists :
        /\ nops < MaxFileOps
        /\ Becomes(RespServeFile(w, req, file, opts),
                   [Called("resp.ServeFile") EXCEPT !.key = file.name,
                                                    !.text = req.name,
                                                    !.opts = opts])

CallDownload ==
    \E fileName \in FileNames, ok \in BOOLEAN :
        /\ nops < MaxFileOps
        /\ Becomes(ServeFileAsDownload(Cur, fileName, Text, ok),
                   [Called("ServeFileAsDownload") EXCEPT !.text = fileName,
                                                         !.ok = ok])

CallRespServeFileAsDownload ==
    \E fileName \in FileNames, opts \in FileOptionLists, ok \in BOOLEAN :
        /\ nops < MaxFileOps
        /\ Becomes(RespServeFileAsDownload(w, fileName, Text, opts, ok),
                   [Called("resp.ServeFileAsDownload") EXCEPT
                        !.text = fileName, !.opts = opts, !.ok = ok])

NextFiles ==
    \/ CallFileNewResponse
    \/ CallServeFile
    \/ CallRespServeFile
    \/ CallDownload
    \/ CallRespServeFileAsDownload

SpecFiles == Init /\ [][NextFiles]_vars

-----------------------------------------------------------------------------
(* The concurrent specification: on a Response that has cookies queued,     *)
(* flow A calls DelCookie while flow B calls SetCookie.  DelCookie runs      *)
(* statement by statement; nothing orders the two flows.                    *)

InitRace ==
    \E queue \in CookieQueues :
        /\ r = FreshResponse
        /\ w = [FreshWriter EXCEPT !.header[HeaderSetCookie] = queue]
        /\ last = NoCall
        /\ nops = 0
        /\ flows = NoFlows
        /\ proj = NoProjection
        /\ run = NoRun

\* Flow A enters DelCookie(name) and runs its first loop: filteredCookies is
\* built from the lines read now.
ARead ==
    \E name \in CookieNames :
        /\ flows.pcA = "idle" /\ ~flows.fatal
        /\ flows' = [flows EXCEPT
                         !.pcA = "del", !.name = name,
                         !.before = w.header[HeaderSetCookie],
                         !.kept = filteredCookies(w.header[HeaderSetCookie],
                                                  name)]
        /\ UNCHANGED <<r, w, last, nops, proj, run>>

\* Flow A: r.httpWriter.Header().Del(HeaderSetCookie)
ADel ==
    /\ flows.pcA = "del" /\ ~flows.fatal
    /\ w' = [w EXCEPT !.header = HeaderDel(@, HeaderSetCookie)]
    /\ flows' = [flows EXCEPT !.pcA = "add"]
    /\ UNCHANGED <<r, last, nops, proj, run>>

\* Flow A: one turn of the second loop, Header().Add of the next kept line.
AAdd ==
    /\ flows.pcA = "add" /\ flows.kept # << >> /\ ~flows.fatal
    /\ w' = [w EXCEPT !.header =
                 HeaderAdd(@, HeaderSetCookie, Head(flows.kept))]
    /\ flows' = [flows EXCEPT !.kept = Tail(@)]
    /\ UNCHANGED <<r, last, nops, proj, run>>

\* Flow A: the second loop is over, DelCookie returns.
AReturn ==
    /\ flows.pcA = "add" /\ flows.kept = << >> /\ ~flows.fatal
    /\ flows' = [flows EXCEPT !.pcA = "done"]
    /\ UNCHANGED <<r, w, last, nops, proj, run>>

\* Flow B as it would be if a mutex of the Response kept it out while flow A
\* is inside DelCookie.
BSetCookie_Locked ==
    \E cookie \in Cookies :
        /\ flows.pcB = "idle" /\ ~flows.fatal
        /\ flows.pcA \in {"idle", "done"}
        /\ w' = SetCookie(Cur, cookie).w
        /\ flows' = [flows EXCEPT !.pcB = "done", !.window = flows.pcA,
                                  !.line = cookieString(cookie)]
        /\ UNCHANGED <<r, last, nops, proj, run>>

\* Flow B calls SetCookie(cookie), wherever flow A is.
BSetCookie ==
    \E cookie \in Cookies :
        /\ flows.pcB = "idle" /\ ~flows.fatal
        /\ w' = SetCookie(Cur, cookie).w
        /\ flows' = [flows EXCEPT !.pcB = "done", !.window = flows.pcA,
                                  !.line = cookieString(cookie)]
        /\ UNCHANGED <<r, last, nops, proj, run>>

\* The header is a Go map written by both flows without synchronisation:
\* when flow B writes it while flow A is inside DelCookie the runtime may end
\* the program (fatal error: concurrent map writes) instead.
RaceFault ==
    /\ flows.pcA \in {"del", "add"} /\ flows.pcB = "idle" /\ ~flows.fatal
    /\ flows' = [flows EXCEPT !.fatal = TRUE]
    /\ UNCHANGED <<r, w, last, nops, proj, run>>

NextRace ==
    \/ ARead
    \/ ADel
    \/ AAdd
    \/ AReturn
    \/ BSetCookie
    \/ RaceFault

SpecRace == InitRace /\ [][NextRace]_vars

-----------------------------------------------------------------------------
(* The projection specification: OnlyFields and ExcludeFields are applied   *)
(* to one value with one field list.                                        *)

InitFields ==
    \E data \in ProjectedValues, fields \in FieldLists :
        /\ r = FreshResponse
        /\ w = FreshWriter
        /\ last = NoCall
        /\ nops = 0
        /\ flows = NoFlows
        /\ proj = [NoProjection EXCEPT !.data = data, !.fields = fields]
        /\ run = NoRun

CallOnlyFields ==
    /\ proj.only = NotCalled
    /\ proj' = [proj EXCEPT !.only = OnlyFields(proj.data, proj.fields)]
    /\ UNCHANGED <<r, w, last, nops, flows, run>>

CallExcludeFields ==
    /\ proj.exclude = NotCalled
    /\ proj' = [proj EXCEPT !.exclude = ExcludeFields(proj.data, proj.fields)]
    /\ UNCHANGED <<r, w, last, nops, flows, run>>

NextFields ==
    \/ CallOnlyFields
    \/ CallExcludeFields

SpecFields == InitFields /\ [][NextFields]_vars

-----------------------------------------------------------------------------
(* The specification of the assembled headers: AddWarning, AddLink and      *)
(* AddRetryAfter are applied to one Response.                               *)

CallAddWarning ==
    \E warnings \in WarningLists :
        /\ nops < MaxAssemblies
        /\ Becomes(ApplyOption(Cur, AddWarning(warnings)),
                   [NoCall EXCEPT !.op = "AddWarning", !.key = HeaderWarning,
                                  !.value = warnings,
                                  !.pre = Pre(HeaderWarning)])

CallAddLink ==
    \E links \in LinkLists :
        /\ nops < MaxAssemblies
        /\ Becomes(ApplyOption(Cur, AddLink(links)),
                   [NoCall EXCEPT !.op = "AddLink", !.key = HeaderLink,
                                  !.value = links, !.pre = Pre(HeaderLink)])

CallAddRetryAfter ==
    \E value \in RetryAfterValues :
        /\ nops < MaxAssemblies
        /\ Becomes(ApplyOption(Cur, AddRetryAfter(value)),
                   [NoCall EXCEPT !.op = "AddRetryAfter",
                                  !.key = HeaderRetryAfter,
                                  !.value = <<value>>,
                                  !.pre = Pre(HeaderRetryAfter)])

NextAssembled ==
    \/ CallAddWarning
    \/ CallAddLink
    \/ CallAddRetryAfter

SpecAssembled == Init /\ [][NextAssembled]_vars

-----------------------------------------------------------------------------
(* The stepwise specification: one emitter runs statement by statement on   *)
(* a Response with a pending status.  Every write to the writer returns,    *)
(* with or without an error, and once a write has failed every later one    *)
(* fails; the source handed to Stream yields at most MaxChunks chunks and   *)
(* then reports io.EOF or an error.                                         *)

\* The sources handed to Stream.
Sources == {[i \in 1..n |-> <<"c", ToString(i)>>] : n \in 0..MaxChunks}

\* The results a write to the writer can return with.
WriteResults == IF run.broken THEN {FALSE} ELSE BOOLEAN

InitRun ==
    \E code \in StatusSet :
        /\ r = [FreshResponse EXCEPT !.statusCode = code]
        /\ w = FreshWriter
        /\ last = NoCall
        /\ nops = 0
        /\ flows = NoFlows
        /\ proj = NoProjection
        /\ run = NoRun

\* The statements of an emitter up to and including its call of prepare.
Prepared(s, op) ==
    CASE op = "JSON" -> prepare(s, StatusOK, <<MIMEApplicationJSONCharsetUTF8>>)
      [] op = "Error" ->
             prepare([s EXCEPT !.r.statusCode = ErrorStatus(s)], StatusOK,
                     <<MIMEApplicationJSONCharsetUTF8>>)
      [] op = "JSONP" ->
             prepare(s, StatusOK, <<MIMEApplicationJavaScriptCharsetUTF8>>)
      [] op = "String" -> prepare(s, StatusOK, <<MIMETextPlain>>)
      [] op = "HTML" -> prepare(s, StatusOK, <<MIMETextHTMLCharsetUTF8>>)
      [] op = "Stream" -> prepare(s, StatusOK, <<MIMEOctetStream>>)
      [] op = "ServeFileAsDownload" ->
             prepare([s EXCEPT !.w.header =
                          HeaderSet(@, HeaderContentDisposition,
                                    AttachmentValue(FileName))],
                     StatusOK, <<MIMEOctetStream>>)
      [] op = "Redirect" -> prepare(s, StatusFound, << >>)
      [] op = "NoContent" ->
             prepare(SetStatus(s, StatusNoContent), StatusNoContent, << >>)

\* The statements from prepare up to and including WriteHeader.
Committed(s, op) ==
    CASE op = "Redirect" ->
             LET s2 == [s EXCEPT !.w.header =
                            HeaderSet(@, "Location", Val(2))]
             IN [s2 EXCEPT !.w =
                     WriteHeader(@, RedirectStatus(s.r.statusCode))]
      [] op = "NoContent" -> [s EXCEPT !.w = WriteHeader(@, StatusNoContent)]
      [] OTHER -> Commit(s)

\* The statements after WriteHeader of an emitter other than Stream.
BodyWritten(s, op, data, ok) ==
    CASE op = "JSON" -> EncodeToWriter(s, data, ok)
      [] op = "Error" ->
             EncodeToWriter(s, newErrorResponse(StatusNotFound, << >>), ok)
      [] op = "JSONP" ->
             LET e == Encode(s.r.jsonEncodeFunc, data)
             IN IF e.err # "nil" THEN [s EXCEPT !.err = e.err]
                ELSE WriteBody(s, JSONPBody(<<"cb">>, TrimNewline(e.out)), ok)
      [] OTHER -> WriteBody(s, Text, ok)

\* Where io.Copy goes after a write as it would be if it tried a failed
\* write again.
AfterWrite_Retries(ok) ==
    IF ok THEN [run EXCEPT !.pc = "reading"]
    ELSE [run EXCEPT !.broken = TRUE]

\* Where io.Copy goes after a write: to the next read, or out of the loop
\* with the error of the write.
AfterWrite(ok) ==
    IF ok THEN [run EXCEPT !.pc = "reading"]
    ELSE [run EXCEPT !.pc = "returned", !.err = "write", !.broken = TRUE]

\* The emitter is called and runs up to the end of prepare.
RunStart ==
    \E op \in {"JSON", "JSONP", "String", "HTML", "Stream",
                "ServeFileAsDownload", "Error", "Redirect", "NoContent"},
       data \in DataSet, src \in Sources, readErr \in BOOLEAN :
        /\ run.pc = "idle"
        /\ op \notin {"JSON", "JSONP"} => data.kind = "map"
        /\ op # "Stream" => src = << >> /\ ~readErr
        /\ r' = Prepared(Cur, op).r
        /\ w' = Prepared(Cur, op).w
        /\ run' = [run EXCEPT !.pc = "prepared", !.op = op, !.data = data,
                              !.src = src, !.readErr = readErr]
        /\ UNCHANGED <<last, nops, flows, proj>>

\* r.httpWriter.WriteHeader: Redirect and NoContent return after it.
RunCommit ==
    /\ run.pc = "prepared"
    /\ r' = Committed(Cur, run.op).r
    /\ w' = Committed(Cur, run.op).w
    /\ run' = [run EXCEPT !.pc = CASE run.op \in {"Redirect", "NoContent"} ->
                                       "returned"
                                  [] run.op = "Stream" -> "reading"
                                  [] OTHER -> "writing"]
    /\ UNCHANGED <<last, nops, flows, proj>>

\* The encoding and the write of the body, and the return of its error.
RunWrite ==
    \E ok \in WriteResults :
        /\ run.pc = "writing"
        /\ r' = BodyWritten(Cur, run.op, run.data, ok).r
        /\ w' = BodyWritten(Cur, run.op, run.data, ok).w
        /\ run' = [run EXCEPT !.pc = "returned",
                              !.err = BodyWritten(Cur, run.op, run.data, ok).err]
        /\ UNCHANGED <<last, nops, flows, proj>>

\* io.Copy reads: the source yields its next chunk, or it has ended and
\* io.Copy returns nil for io.EOF and the error otherwise.
RunRead ==
    /\ run.pc = "reading"
    /\ run' = IF run.src = << >>
              THEN [run EXCEPT !.pc = "returned",
                               !.err = IF run.readErr THEN "read" ELSE "nil"]
              ELSE [run EXCEPT !.pc = "copying", !.chunk = Head(run.src),
                               !.src = Tail(run.src)]
    /\ UNCHANGED <<r, w, last, nops, flows, proj>>

\* io.Copy writes the chunk it read.
RunCopy ==
    \E ok \in WriteResults :
        /\ run.pc = "copying"
        /\ r' = r
        /\ w' = WriteBody(Cur, run.chunk, ok).w
        /\ run' = AfterWrite(ok)
        /\ UNCHANGED <<last, nops, flows, proj>>

NextRun ==
    \/ RunStart
    \/ RunCommit
    \/ RunWrite
    \/ RunRead
    \/ RunCopy

\* The flow that runs the emitter keeps being scheduled.
SpecRun == InitRun /\ [][NextRun]_vars /\ WF_vars(NextRun)

-----------------------------------------------------------------------------
(* The option specification: NewResponse is given a list of options. *)

CallNewResponseWithOptions ==
    \E opts \in OptionSeqs :
        /\ nops < MaxBuilds
        /\ Becomes(NewResponse(w, opts),
                   [Called("NewResponse") EXCEPT !.opts = opts])

NextOptions == CallNewResponseWithOptions

SpecOptions == Init /\ [][NextOptions]_vars

-----------------------------------------------------------------------------
(* The cookie specification: cookies are queued on and removed from one     *)
(* Response built with or without options.                                  *)

InitCookies ==
    \E opts \in CookieOptionLists :
        /\ r = NewResponse(FreshWriter, opts).r
        /\ w = NewResponse(FreshWriter, opts).w
        /\ last = [NoCall EXCEPT !.opts = opts]
        /\ nops = 0
        /\ flows = NoFlows
        /\ proj = NoProjection
        /\ run = NoRun

\* The record of a cookie call named op made in the current state.
CookieCall(op, name) ==
    [NoCall EXCEPT !.op = op, !.text = name, !.pre = Pre(HeaderSetCookie)]

CallSetCookie ==
    \E cookie \in Cookies :
        /\ nops < MaxCookieOps
        /\ Becomes(SetCookie(Cur, cookie),
                   [CookieCall("SetCookie", cookie.Name) EXCEPT
                        !.value = <<cookieString(cookie)>>])

CallBindCookie ==
    \E cookie \in Cookies :
        /\ nops < MaxCookieOps
        /\ Becomes(BindCookie(Cur, cookie),
                   [CookieCall("BindCookie", cookie.Name) EXCEPT
                        !.value = <<cookieString(cookie)>>])

CallDelCookie ==
    \E name \in CookieNames :
        /\ nops < MaxCookieOps
        /\ Becomes(DelCookie(Cur, name), CookieCall("DelCookie", name))

CallClearCookies ==
    /\ nops < MaxCookieOps
    /\ Becomes(ClearCookies(Cur), CookieCall("ClearCookies", << >>))

CallExpiredCookie ==
    \E name \in CookieNames :
        /\ nops < MaxCookieOps
        /\ Becomes(ExpiredCookie(Cur, name), CookieCall("ExpiredCookie", name))

CallCookieDelHeader ==
    \E key \in {HeaderSetCookie, HeaderContentType} :
        /\ nops < MaxCookieOps
        /\ Becomes(DelHeader(Cur, key),
                   [CookieCall("DelHeader", << >>) EXCEPT !.key = key])

CallCookieClearHeaders ==
    /\ nops < MaxCookieOps
    /\ Becomes(ClearHeaders(Cur), CookieCall("ClearHeaders", << >>))

NextCookies ==
    \/ CallSetCookie
    \/ CallBindCookie
    \/ CallDelCookie
    \/ CallClearCookies
    \/ CallExpiredCookie
    \/ CallCookieDelHeader
    \/ CallCookieClearHeaders

SpecCookies == InitCookies /\ [][NextCookies]_vars

-----------------------------------------------------------------------------
(* Header policy: claims C1 to C3, under SpecHeaders. *)

\* The values joined with commas, built from the left.
RECURSIVE CommaJoined(_, _)
CommaJoined(value, n) ==
    IF n = 0 THEN << >>
    ELSE IF n = 1 THEN value[1]
    ELSE CommaJoined(value, n - 1) \o <<",">> \o value[n]

\* The last call was SetHeader or AddHeader, with at least one value, on a
\* header of the single-valued table.
SingleValuedCall ==
    /\ last.op \in {"SetHeader", "AddHeader"}
    /\ In(last.key, singleHeaders)
    /\ Len(last.value) > 0

\* The last call was op on a header that is multi-valued under every spelling.
MultiValuedCall(op) ==
    /\ last.op = op
    /\ ~In(CanonicalMIMEHeaderKey(last.key), singleHeaders)

\* C1: after SetHeader(H, v1..vn) or AddHeader(H, v1..vn), n >= 1, on a
\* single-valued header H, whatever calls came before, H has exactly one line
\* and it is v1.
C1_SingleValuedKeepsFirstValue ==
    SingleValuedCall => w.header[last.key] = <<last.value[1]>>

\* AddHeader with two values on a single-valued header that already had a
\* different line: the old line is gone and the second value dropped.
C1_Witness ==
    /\ SingleValuedCall
    /\ last.op = "AddHeader"
    /\ Len(last.value) = 2
    /\ last.pre.lines # << >>
    /\ last.pre.lines # <<last.value[1]>>
    /\ w.header[last.key] = <<last.value[1]>>

\* C2: AddHeader(H, v1..vn) on a multi-valued header H appends v1..vn to the
\* lines of H as n lines in argument order, so that a sequence of AddHeader
\* calls leaves one line per supplied value in call order.
C2_AddHeaderAppendsEachValue ==
    MultiValuedCall("AddHeader") =>
        w.header[CanonicalMIMEHeaderKey(last.key)] = last.pre.lines \o last.value

\* A second AddHeader, with two values, on a multi-valued header: the header
\* has at least three lines, the last two being the two values.
C2_Witness ==
    /\ MultiValuedCall("AddHeader")
    /\ Len(last.value) = 2
    /\ Len(last.pre.lines) >= 1
    /\ LET lines == w.header[CanonicalMIMEHeaderKey(last.key)]
       IN /\ Len(lines) = Len(last.pre.lines) + 2
          /\ lines[Len(lines) - 1] = last.value[1]
          /\ lines[Len(lines)] = last.value[2]

\* C3: SetHeader(H, v1..vn) on a multi-valued header H leaves H with exactly
\* one line, v1..vn joined with commas in order, whatever lines H had.
C3_SetHeaderJoinsIntoOneLine ==
    MultiValuedCall("SetHeader") =>
        w.header[CanonicalMIMEHeaderKey(last.key)] =
            <<CommaJoined(last.value, Len(last.value))>>

\* SetHeader with two values on a multi-valued header that had two lines or
\* more: one line is left, holding both values and the comma.
C3_Witness ==
    /\ MultiValuedCall("SetHeader")
    /\ Len(last.value) = 2
    /\ Len(last.pre.lines) >= 2
    /\ w.header[CanonicalMIMEHeaderKey(last.key)] =
           <<last.value[1] \o <<",">> \o last.value[2]>>

-----------------------------------------------------------------------------
(* Emitters: claims C4 to C10, under Spec. *)

\* The last call was op and nothing had been committed to the writer before.
FirstCommitBy(ops) == last.op \in ops /\ ~last.pre.wroteHeader

\* The emitters that take their defaults from prepare(StatusOK, type).
Negotiating ==
    {"JSON", "JSONP", "String", "HTML", "Stream", "ServeFileAsDownload"}

\* The default content type of each of them.
DefaultType(op) ==
    CASE op = "JSON" -> <<"application/json; charset=utf-8">>
      [] op = "JSONP" -> <<"application/javascript; charset=utf-8">>
      [] op = "String" -> <<"text/plain">>
      [] op = "HTML" -> <<"text/html; charset=utf-8">>
      [] OTHER -> <<"application/octet-stream">>

\* C4: prepare never overrides the caller: JSON, JSONP, String, HTML, Stream
\* and ServeFileAsDownload commit the pending status when one is set and 200
\* otherwise, and the Content-Type lines present before the call when there
\* are any and the emitter's default type otherwise.
C4_PrepareKeepsCallerChoice ==
    FirstCommitBy(Negotiating) =>
        /\ w.wroteHeader
        /\ w.code = IF last.pre.statusCode = StatusUndefined THEN 200
                    ELSE last.pre.statusCode
        /\ w.snapHeader[HeaderContentType] =
               IF last.pre.lines = << >> THEN <<DefaultType(last.op)>>
               ELSE last.pre.lines
        /\ w.header[HeaderContentType] = w.snapHeader[HeaderContentType]
        /\ r.statusCode = w.code

\* HTML after the caller chose status 404 and a content type of its own:
\* both are what the writer committed.
C4_Witness ==
    /\ FirstCommitBy({"HTML"})
    /\ last.pre.statusCode = StatusNotFound
    /\ last.pre.lines = <<Val(1)>>
    /\ w.code = StatusNotFound
    /\ w.snapHeader[HeaderContentType] = <<Val(1)>>

\* C5: when encoding fails in JSON or JSONP, the failure is returned and the
\* writer has received neither a status commit nor a body byte.
C5_EncodeFailureBeforeCommit ==
    (FirstCommitBy({"JSON", "JSONP"}) /\ last.err = "encode") =>
        /\ ~w.wroteHeader
        /\ w.body = << >>

RECURSIVE StatusOfOptions(_, _)
StatusOfOptions(opts, own) ==
    IF opts = << >> THEN own
    ELSE IF opts[Len(opts)].opt = "WithStatus" THEN opts[Len(opts)].code
    ELSE StatusOfOptions(SubSeq(opts, 1, Len(opts) - 1), own)

\* The status pending when the redirect of the last call starts.
PendingAtRedirect ==
    IF last.op = "Redirect" THEN last.pre.statusCode
    ELSE StatusOfOptions(last.opts, 302)

\* C8: Redirect(url) commits the pending status s when 300 <= s <= 308 and
\* 302 otherwise, with Location set to url alone, and writes no body.
C8_RedirectClampsStatus ==
    (last.op \in {"Redirect", "resp.Redirect"} => w.body = last.pre.body)
    /\ (FirstCommitBy({"Redirect", "resp.Redirect"}) =>
           /\ w.wroteHeader
           /\ w.code = IF PendingAtRedirect >= 300 /\ PendingAtRedirect <= 308
                       THEN PendingAtRedirect
                       ELSE 302
           /\ w.snapHeader[HeaderLocation] = <<last.text>>
           /\ w.body = << >>)

\* Redirect with status 309 pending and another Location already set: 302 is
\* committed and the Location is the url.
C8_Witness ==
    /\ FirstCommitBy({"Redirect"})
    /\ last.pre.statusCode = 309
    /\ last.pre.location = <<Val(1)>>
    /\ w.code = 302
    /\ w.snapHeader[HeaderLocation] = <<Val(2)>>

\* A redirect that keeps the caller's status: 308 is committed.
C8_WitnessInRange ==
    /\ FirstCommitBy({"Redirect", "resp.Redirect"})
    /\ PendingAtRedirect = 308
    /\ w.code = 308

C9_WitnessOption ==
    /\ FirstCommitBy({"resp.NoContent"})
    /\ last.opts = <<WithStatus(StatusNotFound)>>
    /\ w.code = 204

C10_WitnessPriorStatus ==
    /\ FirstCommitBy({"Error"})
    /\ last.pre.statusCode = 299
    /\ last.code = StatusNotFound
    /\ w.code = 299

-----------------------------------------------------------------------------
(* The error envelope's message: claim C11, under Spec. *)

\* The envelope Error(code, message) is to send: the message as given, and
\* the text of the status table for the code when the message is empty.
EnvelopeWithDefault(code, message) ==
    <<"{\"code\":", Itoa(code), ",\"message\":\"">>
        \o (IF message = << >> THEN statusMessages(code) ELSE message)
        \o <<"\"}">>

\* C11: the body of Error(code, message) on a working writer is the envelope
\* whose message is the message supplied, and the status table's text for the
\* code when the message is empty (Error(404, "") sends "Not Found").
C11_EmptyMessageDefaults ==
    (FirstCommitBy({"Error"}) /\ last.ok) =>
        w.body \in {EnvelopeWithDefault(last.code, last.text),
                    EnvelopeWithDefault(last.code, last.text) \o <<"\n">>}

-----------------------------------------------------------------------------
(* Cookies: claims C12 and C13, under SpecCookies. *)

\* The name of the cookie a Set-Cookie line carries: the text before the
\* first "=".
RECURSIVE NameOfLine(_)
NameOfLine(c) ==
    IF c = << >> \/ Head(c) = "=" THEN << >>
    ELSE <<Head(c)>> \o NameOfLine(Tail(c))

\* The lines of a queue whose cookie is not named name, in their order.
RECURSIVE OtherCookies(_, _)
OtherCookies(lines, name) ==
    IF lines = << >> THEN << >>
    ELSE IF NameOfLine(Head(lines)) # name
    THEN <<Head(lines)>> \o OtherCookies(Tail(lines), name)
    ELSE OtherCookies(Tail(lines), name)

\* Whatever is not a cookie is as it was before the last call.
RestUntouched ==
    /\ \A k \in CanonKeys \ {HeaderSetCookie} : w.header[k] = last.pre.header[k]
    /\ r.statusCode = last.pre.statusCode
    /\ w.wroteHeader = last.pre.wroteHeader

\* C12: DelCookie(name) leaves queued exactly the cookies whose name is not
\* name, in their order (session_id stays when session is deleted), and
\* leaves the other headers and the pending status as they were.
C12_DelCookieExactName ==
    last.op = "DelCookie" =>
        /\ w.header[HeaderSetCookie] = OtherCookies(last.pre.lines, last.text)
        /\ RestUntouched

\* DelCookie("session") on a queue holding a cookie named session, then
\* session_id, then session again: session_id alone stays queued.
C12_Witness ==
    /\ last.op = "DelCookie"
    /\ last.text = <<"session">>
    /\ Len(last.pre.lines) = 3
    /\ NameOfLine(last.pre.lines[1]) = <<"session">>
    /\ NameOfLine(last.pre.lines[2]) = <<"session", "_id">>
    /\ NameOfLine(last.pre.lines[3]) = <<"session">>
    /\ w.header[HeaderSetCookie] = <<last.pre.lines[2]>>

\* C13: after BindCookie(c) the queue is the cookies of other names that were
\* queued, in their order, followed by c: c is the only cookie of its name.
C13_BindCookieUpserts ==
    last.op = "BindCookie" =>
        /\ w.header[HeaderSetCookie] =
               OtherCookies(last.pre.lines, last.text) \o last.value
        /\ Cardinality({i \in DOMAIN w.header[HeaderSetCookie] :
               NameOfLine(w.header[HeaderSetCookie][i]) = last.text}) = 1
        /\ RestUntouched

\* BindCookie of a cookie named session after SetCookie queued two cookies of
\* that name and one named session_id: one session is left, placed last.
C13_Witness ==
    /\ last.op = "BindCookie"
    /\ last.text = <<"session">>
    /\ Len(last.pre.lines) = 3
    /\ Cardinality({i \in 1..3 :
           NameOfLine(last.pre.lines[i]) = <<"session">>}) = 2
    /\ Len(w.header[HeaderSetCookie]) = 2
    /\ NameOfLine(w.header[HeaderSetCookie][1]) = <<"session", "_id">>
    /\ w.header[HeaderSetCookie][2] = last.value[1]

-----------------------------------------------------------------------------
(* File download: claim C14, under SpecFiles. *)

\* The file name has no letter outside ASCII.
IsASCII(fileName) == \A i \in DOMAIN fileName : fileName[i] # "<U+00E9>"

\* The RFC 5987 form of the attachment disposition for the last call's file
\* name.
ExtendedValue ==
    <<"attachment", "; filename*=UTF-8''">> \o PathEscape(last.text)

\* The caller of the last call asked for the UTF-8 form of its file name: by
\* an option of the call, or by the option the Response was built with.
UTF8Requested ==
    \/ \E i \in DOMAIN last.opts :
           last.opts[i] =
               AddContentDisposition(<<"attachment">>, last.text, <<TRUE>>)
    \/ last.pre.header[HeaderContentDisposition] = <<ExtendedValue>>

\* C14: ServeFileAsDownload(fileName, data) commits Content-Disposition
\* attachment; filename="fileName", and the form attachment;
\* filename*=UTF-8''<percent-encoded fileName> when the UTF-8 form is requested
\* for a name outside ASCII; on a working writer the body is data.
C14_DownloadDisposition ==
    FirstCommitBy({"ServeFileAsDownload", "resp.ServeFileAsDownload"}) =>
        /\ w.snapHeader[HeaderContentDisposition] =
               IF UTF8Requested /\ ~IsASCII(last.text)
               THEN <<ExtendedValue>>
               ELSE <<(<<"attachment; filename=\"">> \o last.text
                          \o <<"\"">>)>>
        /\ (last.ok => w.body = Text)

-----------------------------------------------------------------------------
(* Default types of String and HTML: claim C15, under Spec. *)

\* C15: when no Content-Type is set, String commits Content-Type
\* text/plain; charset=utf-8 and HTML commits text/html; charset=utf-8.
C15_TextDefaultsCarryCharset ==
    (FirstCommitBy({"String", "HTML"}) /\ last.pre.lines = << >>) =>
        w.snapHeader[HeaderContentType] =
            IF last.op = "String"
            THEN <<(<<"text/plain; charset=utf-8">>)>>
            ELSE <<(<<"text/html; charset=utf-8">>)>>

-----------------------------------------------------------------------------
(* Order of options: claim C16, under SpecOptions. *)

\* The positions of the options of the last call aimed at header k, and of
\* those among them that replace its lines: the ones that name a header of
\* the single-valued table as the table spells it.
Targeting(k) ==
    {i \in DOMAIN last.opts :
        /\ last.opts[i].opt = "WithHeader"
        /\ CanonicalMIMEHeaderKey(last.opts[i].key) = k}

Replacing(k) == {i \in Targeting(k) : last.opts[i].key \in singleHeaders}

Latest(S) == CHOOSE i \in S : \A j \in S : j <= i

\* The values of the options at the positions of S after position n, one
\* line per value, in the order of the options.
RECURSIVE LinesAfter(_, _)
LinesAfter(S, n) ==
    IF \A i \in S : i <= n THEN << >>
    ELSE LET i == CHOOSE i \in S : i > n /\ \A j \in S : j > n => i <= j
         IN last.opts[i].value \o LinesAfter(S, i)

\* The positions of the WithStatus options of the last call.
StatusOptions == {i \in DOMAIN last.opts : last.opts[i].opt = "WithStatus"}

\* The status is that of the last WithStatus option, if there is one.
StatusIsLatest ==
    r.statusCode = IF StatusOptions = {} THEN StatusUndefined
                   ELSE last.opts[Latest(StatusOptions)].code

\* C16 as stated: after NewResponse(w, o1..on) the status is that of the last
\* WithStatus option and every header an option aims at holds only what the
\* last option aimed at it wrote.
C16_LaterOptionOverrides ==
    last.op = "NewResponse" =>
        /\ StatusIsLatest
        /\ \A k \in CanonKeys :
               Targeting(k) # {} =>
                   w.header[k] = last.opts[Latest(Targeting(k))].value

\* C16 as amended: the status is that of the last WithStatus option; a header
\* holds the value of the last option that named it as the single-valued
\* table spells it (the lines it had before the call when there is none)
\* followed by one line per value of the options aimed at it after that one.
C16_OptionsApplyInOrder ==
    last.op = "NewResponse" =>
        /\ StatusIsLatest
        /\ \A k \in CanonKeys :
               w.header[k] =
                   IF Replacing(k) = {}
                   THEN last.pre.header[k] \o LinesAfter(Targeting(k), 0)
                   ELSE last.opts[Latest(Replacing(k))].value
                        \o LinesAfter(Targeting(k), Latest(Replacing(k)))

\* NewResponse given two Content-Type options with a status option between
\* them: the second Content-Type is the one kept, alone.
C16_Witness ==
    /\ last.op = "NewResponse"
    /\ last.opts = <<AddContentType(Val(1)), WithStatus(StatusNotFound),
                     AddContentType(Val(2))>>
    /\ w.header[HeaderContentType] = <<Val(2)>>
    /\ r.statusCode = StatusNotFound

\* NewResponse given two Cache-Control options: the lines of both are kept.
C16_WitnessMultiValued ==
    /\ last.op = "NewResponse"
    /\ last.opts = <<WithHeader(HeaderCacheControl, <<Val(1)>>),
                     WithHeader(HeaderCacheControl, <<Val(1)>>)>>
    /\ w.header[HeaderCacheControl] = <<Val(1), Val(1)>>

-----------------------------------------------------------------------------
(* Concurrent use: claim C17, under SpecRace. *)

\* C17: nothing keeps flow B out while flow A is inside DelCookie (the layer
\* holds no lock), and an update made then can be lost: once DelCookie has
\* returned, a cookie SetCookie queued between DelCookie's read of the lines
\* and its deletion of them is gone, the queue being the lines DelCookie kept
\* from what it had read.
C17_ConcurrentUpdateLost ==
    /\ (flows.pcA \in {"del", "add"} /\ flows.pcB = "idle" /\ ~flows.fatal)
           => ENABLED BSetCookie
    /\ (flows.pcA = "done" /\ flows.window = "del")
           => w.header[HeaderSetCookie] =
                  filteredCookies(flows.before, flows.name)

\* DelCookie("id") has returned, SetCookie of a cookie named session ran
\* between its read and its deletion and returned, and that cookie, which was
\* not queued before and is not named id, is not queued.
C17_Witness ==
    /\ flows.pcA = "done" /\ flows.pcB = "done" /\ flows.window = "del"
    /\ flows.name = <<"id">>
    /\ NameOfLine(flows.line) = <<"session">>
    /\ \A i \in DOMAIN flows.before : flows.before[i] # flows.line
    /\ flows.before # << >>
    /\ \A i \in DOMAIN w.header[HeaderSetCookie] :
           w.header[HeaderSetCookie][i] # flows.line

-----------------------------------------------------------------------------
(* ServeFile: claims C18 to C20, under SpecFiles. *)

ServeFileCalls == {"ServeFile", "resp.ServeFile"}

\* The last call was handed a file that is not there, or a request whose path
\* is refused.
FileMissing == last.key = "missing.txt"
PathRefused == last.text = <<"GET", "..">>

\* The status http.ServeFile answers the last call's request with.
DelegateStatus ==
    IF PathRefused THEN 400
    ELSE IF FileMissing THEN 404
    ELSE IF last.text = <<"GET", "If-Modified-Since">> THEN 304
    ELSE 200

\* The Content-Type lines set when the body of ServeFile starts: those an
\* option of the call set, else those set before the call.
ContentTypeAtCall ==
    IF \E i \in DOMAIN last.opts : last.opts[i] = AddContentType(Val(1))
    THEN <<Val(1)>>
    ELSE last.pre.lines

C19_ServeFileSendsCustomStatus ==
    (/\ FirstCommitBy({"resp.ServeFile"})
     /\ StatusOfOptions(last.opts, StatusUndefined) # StatusUndefined) =>
        w.code = StatusOfOptions(last.opts, StatusUndefined)

\* C20: ServeFile returns an error when the file cannot be served (it does
\* not exist, the request's path is refused), and nil otherwise.
C20_ServeFileReportsFailure ==
    last.op \in ServeFileCalls =>
        (last.err # "nil" <=> (FileMissing \/ PathRefused))

-----------------------------------------------------------------------------
(* Field projection: claim C21, under SpecFields. *)

\* The value is a struct, a pointer to a struct or a map with string keys.
Projectable ==
    \/ proj.data.kind = "struct"
    \/ proj.data.kind = "ptr" /\ proj.data.elem = "struct"
    \/ proj.data.kind = "map" /\ proj.data.key = "string"

\* C21: for a struct, a pointer to a struct or a map with string keys (an R
\* included) OnlyFields returns exactly the fields named in the list and
\* ExcludeFields exactly the others, each with its value; a value of any
\* other kind is returned as it is; neither function panics.
C21_ProjectionsPartition ==
    /\ (proj.only # NotCalled =>
           proj.only = IF Projectable
                       THEN RMap(Range(proj.data.names) \cap Range(proj.fields))
                       ELSE proj.data)
    /\ (proj.exclude # NotCalled =>
           proj.exclude = IF Projectable
                          THEN RMap(Range(proj.data.names) \ Range(proj.fields))
                          ELSE proj.data)

-----------------------------------------------------------------------------
(* Order of the steps of an emitter: claim C22, under Spec. *)

\* The emitters that commit the status themselves.
SelfCommitting ==
    {"JSON", "JSONP", "String", "HTML", "Stream", "ServeFileAsDownload",
     "Error", "Redirect", "NoContent"}

\* How many entries of the log are e.
Count(log, e) == Cardinality({i \in DOMAIN log : log[i] = e})

\* The header the emitter sets on its own, and the value it sets it to.
OwnHeaderSet ==
    CASE last.op = "Redirect" ->
             w.snapHeader[HeaderLocation] = <<last.text>>
      [] last.op = "ServeFileAsDownload" ->
             w.snapHeader[HeaderContentDisposition]
                 = <<AttachmentValue(last.text)>>
      [] last.op = "NoContent" -> TRUE
      [] OTHER -> w.snapHeader[HeaderContentType] # << >>

\* C22: a self-committing emitter runs prepare once and first, hands the
\* writer one WriteHeader right after it, and every Write after that; when
\* that WriteHeader is the commit, the headers committed are the headers as
\* the emitter leaves them, the one it sets on its own among them.
C22_PrepareThenCommitThenBody ==
    last.op \in SelfCommitting =>
        /\ Count(w.log, "prepare") = 1
        /\ Count(w.log, "WriteHeader") = 1
        /\ Len(w.log) >= 2
        /\ w.log[1] = "prepare"
        /\ w.log[2] = "WriteHeader"
        /\ (~last.pre.wroteHeader =>
               /\ w.wroteHeader
               /\ w.snapHeader = w.header
               /\ OwnHeaderSet)

\* An emitter committed and then wrote the body; another committed with the
\* Location it set.
C22_Witness ==
    /\ last.op = "ServeFileAsDownload"
    /\ ~last.pre.wroteHeader
    /\ last.pre.statusCode = StatusNotFound
    /\ w.log = <<"prepare", "WriteHeader", "Write">>
    /\ w.code = StatusNotFound
    /\ w.body = Text

C22_WitnessRedirect ==
    /\ last.op = "Redirect"
    /\ ~last.pre.wroteHeader
    /\ w.log = <<"prepare", "WriteHeader">>
    /\ w.snapHeader[HeaderLocation] = <<last.text>>

-----------------------------------------------------------------------------
(* Stream: claim C23, under Spec. *)

\* The bytes of the first n chunks of a source, in order.
RECURSIVE FirstChunks(_, _)
FirstChunks(chunks, n) ==
    IF n = 0 THEN << >> ELSE FirstChunks(chunks, n - 1) \o chunks[n]

\* What the call of Stream added to the body.
Streamed == SubSeq(w.body, Len(last.pre.body) + 1, Len(w.body))

\* C23: Stream appends the source's chunks to the body in order.  When no
\* write fails and the source ends with EOF the body gained all of the source
\* and nil is returned; when the source ends with a read error that error is
\* returned after what was read was written; when the k-th write fails the
\* write error is returned, the body gained the k-1 chunks before it, and
\* the writer was handed exactly k writes: none after the failure.
C23_StreamCopiesUntilFirstError ==
    last.op = "Stream" =>
        /\ SubSeq(w.body, 1, Len(last.pre.body)) = last.pre.body
        /\ \E n \in 0..Len(last.value) : Streamed = FirstChunks(last.value, n)
        /\ (last.code = 0 /\ last.text = <<"EOF">> =>
               /\ Streamed = FirstChunks(last.value, Len(last.value))
               /\ last.err = "nil")
        /\ (last.code = 0 /\ last.text = <<"read error">> =>
               /\ Streamed = FirstChunks(last.value, Len(last.value))
               /\ last.err = "read"
               /\ Count(w.log, "Write") = Len(last.value))
        /\ (last.code > 0 =>
               /\ Streamed = FirstChunks(last.value, last.code - 1)
               /\ last.err = "write"
               /\ Count(w.log, "Write") = last.code)

\* The second write of a Stream failed: the body holds the first chunk.
C23_Witness ==
    /\ last.op = "Stream"
    /\ last.code = 2
    /\ last.err = "write"
    /\ w.body = last.value[1]
    /\ Len(last.value) = 2

\* A Stream whose source was drained without an error.
C23_WitnessComplete ==
    /\ last.op = "Stream"
    /\ last.err = "nil"
    /\ w.body = last.value[1] \o last.value[2]

-----------------------------------------------------------------------------
(* The first commit wins: claim C24, under Spec. *)

\* C24: once the writer has committed, no call (SetStatus, an option, a new
\* Response on the writer, another emitter) changes the status and the
\* headers committed; the body only grows at its end, and a later String or
\* HTML whose write succeeds appends its text to what was written.
C24_FirstCommitWins ==
    [][w.wroteHeader =>
          /\ w'.wroteHeader
          /\ w'.code = w.code
          /\ w'.snapHeader = w.snapHeader
          /\ Len(w'.body) >= Len(w.body)
          /\ SubSeq(w'.body, 1, Len(w.body)) = w.body
          /\ (last'.op \in {"String", "HTML"} /\ last'.ok =>
                 w'.body = w.body \o last'.text)]_vars

\* The fallback of the README: JSON committed 200 and failed to encode, then
\* Error ran with 500 pending; the status sent is still 200 and the envelope
\* follows what JSON had written.
C24_Witness ==
    /\ last.op = "Error"
    /\ last.pre.wroteHeader
    /\ r.statusCode = StatusInternalServerError
    /\ w.code = StatusOK
    /\ last.pre.body # << >>
    /\ Len(w.body) > Len(last.pre.body)
    /\ SubSeq(w.body, 1, Len(last.pre.body)) = last.pre.body

-----------------------------------------------------------------------------
(* Warning and Link: claim C25, under SpecAssembled. *)

\* The parts that are not empty, in order, with sep between them.
RECURSIVE JoinParts(_, _)
JoinParts(parts, sep) ==
    IF parts = << >> THEN << >>
    ELSE IF Head(parts) = << >> THEN JoinParts(Tail(parts), sep)
    ELSE IF JoinParts(Tail(parts), sep) = << >> THEN Head(parts)
    ELSE Head(parts) \o <<sep>> \o JoinParts(Tail(parts), sep)

\* A field between double quotes, a field as the value of a parameter; an
\* empty optional field gives no part.
Quoted(x) == IF x = << >> THEN << >> ELSE <<"\"">> \o x \o <<"\"">>
Param(name, x) ==
    IF x = << >> THEN << >> ELSE <<name \o "=\"">> \o x \o <<"\"">>

\* A Warning: the code, the agent, the quoted text, the quoted date.
WarningDirective(d) ==
    JoinParts(<<(<<ToString(d.Code)>>), d.Agent, Quoted(d.Text),
                IF d.Date = ZeroTime THEN << >>
                ELSE Quoted(d.Date.local \o <<" ", d.Date.zone>>)>>, " ")

\* A Link: <uri>, rel="...", then type, then title.
LinkDirective(d) ==
    JoinParts(<<(<<"<">> \o d.URI \o <<">">>),
                <<"rel=\"">> \o d.Rel \o <<"\"">>,
                Param("type", d.Type), Param("title", d.Title)>>, "; ")

\* C25: AddWarning and AddLink leave the lines the header had, followed by
\* one line for each directive in argument order; the line of a Warning is
\* its code, agent, quoted text and quoted date separated by spaces, the line
\* of a Link is <uri>, rel, type and title separated by "; ", an optional
\* field that is empty being left out.
C25_DirectivesAssembledInOrder ==
    /\ (last.op = "AddWarning" =>
           w.header[HeaderWarning]
               = last.pre.lines
                 \o [i \in 1..Len(last.value) |-> WarningDirective(last.value[i])])
    /\ (last.op = "AddLink" =>
           w.header[HeaderLink]
               = last.pre.lines
                 \o [i \in 1..Len(last.value) |-> LinkDirective(last.value[i])])

\* Two warnings were added to a Warning header that had a line: a bare one,
\* then one with every field.
C25_Witness ==
    /\ last.op = "AddWarning"
    /\ Len(last.pre.lines) > 0
    /\ Len(last.value) = 2
    /\ last.value[2] = FullWarning
    /\ last.value[1].Agent = << >>
    /\ last.value[1].Date = ZeroTime
    /\ w.header[HeaderWarning][Len(last.pre.lines) + 1]
           = <<"299", " ", "\"", "Deprecated Feature", "\"">>
    /\ w.header[HeaderWarning][Len(last.pre.lines) + 2]
           = <<"299", " ", "TestAgent", " ", "\"", "Deprecated Feature", "\"",
               " ", "\"", "Fri, 25 Mar 2022 00:00:00", " ", "UTC", "\"">>

\* A link without a type was added after a line already present.
C25_WitnessLink ==
    /\ last.op = "AddLink"
    /\ Len(last.pre.lines) > 0
    /\ Len(last.value) = 1
    /\ w.header[HeaderLink][Len(last.pre.lines) + 1]
           = <<"<", "/page/2", ">", "; ", "rel=\"", "next", "\"", "; ",
               "title=\"", "Next", "\"">>

-----------------------------------------------------------------------------
(* Retry-After: claim C26, under SpecAssembled. *)

\* The HTTP-date of a time: its wall clock in UTC followed by GMT.
HTTPDate(t) == t.utc \o <<" ", "GMT">>

\* The number of whole seconds of a duration, as the decimal digits of the
\* durations of the model.
WholeSecondsOf(n) ==
    CASE n = 1500000000 -> <<"1">>
      [] n = -1500000000 -> <<"-1">>
      [] n = 999999999 -> <<"0">>
      [] n = 2000000000 -> <<"2">>

\* C26: after AddRetryAfter the Retry-After header is one line: the decimal
\* string of an integer, the whole seconds of a duration truncated toward
\* zero, the HTTP-date of a time; whatever the header held is replaced.
C26_RetryAfterNormalised ==
    last.op = "AddRetryAfter" =>
        LET value == last.value[1]
        IN w.header[HeaderRetryAfter]
               = << CASE value.type = "int" -> <<ToString(value.n)>>
                      [] value.type = "time.Duration" -> WholeSecondsOf(value.n)
                      [] value.type = "time.Time" -> HTTPDate(value.t) >>

-----------------------------------------------------------------------------
(* Termination of the emitters: claim C27, under SpecRun. *)

\* C27: an emitter that has started returns, with nil or an error, whatever
\* the writes return with and however the source ends.
C27_EmittersReturn == (run.pc # "idle") ~> (run.pc = "returned")

\* A Stream went twice through its loop and returned after the source ended
\* in an error; another returned after a write that failed.
C27_Witness ==
    /\ run.pc = "returned"
    /\ run.op = "Stream"
    /\ run.err = "read"
    /\ w.body = <<"c", "1", "c", "2">>

C27_WitnessWriteFailed ==
    /\ run.pc = "returned"
    /\ run.op = "Stream"
    /\ run.err = "write"
    /\ run.broken
    /\ w.body = <<"c", "1">>

-----------------------------------------------------------------------------
(* The policy and the spelling of the key: claim C28, under SpecHeaders. *)

\* C28: SetHeader and AddHeader with at least one value, on a key that names
\* a header of the single-valued table in any letter case, leave that header
\* with the first value as its only line.
C28_PolicyByCanonicalName ==
    /\ last.op \in {"SetHeader", "AddHeader"}
    /\ CanonicalMIMEHeaderKey(last.key) \in singleHeaders
    /\ Len(last.value) > 0
    => w.header[CanonicalMIMEHeaderKey(last.key)] = <<last.value[1]>>

-----------------------------------------------------------------------------
(* The undefined status never reaches the writer: claim C29, under Spec. *)

\* The status an emitter sends when none is pending.
DefaultStatusOf(op) ==
    CASE op = "Error" -> StatusInternalServerError
      [] op = "Redirect" -> StatusFound
      [] op = "NoContent" -> StatusNoContent
      [] OTHER -> StatusOK

\* C29: the status a self-committing emitter hands to WriteHeader is never
\* 0, whatever options and SetStatus calls came before; with status 0
\* pending, set by SetStatus(0) or never set, it is the emitter's default;
\* and SetStatus(0) leaves the Response as NewResponse makes it.
C29_UndefinedStatusNeverSent ==
    /\ (last.op \in SelfCommitting =>
           /\ w.handed # StatusUndefined
           /\ (~last.pre.wroteHeader => w.code = w.handed)
           /\ (last.pre.statusCode = StatusUndefined =>
                  w.handed = DefaultStatusOf(last.op)))
    /\ (last.op = "SetStatus" /\ last.code = StatusUndefined =>
           r.statusCode = FreshResponse.statusCode)

\* String committed its default with status 0 pending.
C29_Witness ==
    /\ last.op = "String"
    /\ last.pre.statusCode = StatusUndefined
    /\ ~last.pre.wroteHeader
    /\ w.code = StatusOK
    /\ w.handed = StatusOK

-----------------------------------------------------------------------------
(* Cookies among the headers: claim C30, under SpecCookies. *)

\* C30: ClearHeaders leaves no header, the queued cookies gone with the
\* others; DelHeader("Set-Cookie") leaves no cookie and every other header
\* as it was; ClearCookies leaves no cookie and every other header, the
\* pending status and the commit as they were.  None of them changes the
\* pending status.
C30_CookiesAreHeaderLines ==
    /\ (last.op = "ClearHeaders" =>
           /\ \A k \in CanonKeys : w.header[k] = << >>
           /\ r.statusCode = last.pre.statusCode)
    /\ (last.op = "DelHeader" /\ last.key = HeaderSetCookie =>
           /\ w.header[HeaderSetCookie] = << >>
           /\ RestUntouched)
    /\ (last.op = "ClearCookies" =>
           /\ w.header[HeaderSetCookie] = << >>
           /\ RestUntouched)

\* ClearHeaders on a Response with a status pending, a Content-Type and two
\* cookies queued.
C30_Witness ==
    /\ last.op = "ClearHeaders"
    /\ Len(last.pre.lines) = 2
    /\ last.pre.header[HeaderContentType] # << >>
    /\ last.pre.statusCode = StatusNotFound
    /\ w.header = EmptyHeader
    /\ r.statusCode = StatusNotFound

\* ClearCookies on such a Response: the Content-Type stays.
C30_WitnessClearCookies ==
    /\ last.op = "ClearCookies"
    /\ Len(last.pre.lines) = 2
    /\ w.header[HeaderSetCookie] = << >>
    /\ w.header[HeaderContentType] = <<Val(1)>>
    /\ r.statusCode = StatusNotFound

====
